---- MODULE Spec2Model ----
(***************************************************************************)
(* Model of the ABAC core of the identity microservice:                    *)
(*   app/core/policy_validator.py      PolicyValidator                     *)
(*   app/repositories/policy_repository.py  PolicyRepository (singleton)   *)
(*   app/services/abac_evaluator.py    ABACEvaluator                       *)
(*   app/services/authz_service.py     AuthzService (one instance)         *)
(* The policy file, the wall clock and the callers are the environment.    *)
(*                                                                         *)
(* Conventions.  A Python value is a tagged record [t, v]; a Python list   *)
(* of strings built with an f-string is a sequence of tuples               *)
(* <<prefix, argument>> (a plain literal is the 1-tuple <<literal>>).      *)
(* An exception is a result record whose field exc is not NoExc.           *)
(***************************************************************************)
EXTENDS Integers, Sequences, FiniteSets, TLC

VARIABLES
    manager,          \* the JWTManager singleton: its keys, or why it has none
    other_cache,      \* _decision_cache of a second AuthzService of the process
    workers,          \* the threads inside a call on the service: position and locals
    origin,           \* history: the policy list each cached decision was computed from
    now,              \* time.time(), in seconds
    ticks,            \* number of clock advances so far (bounds the run)
    file_exists,      \* Path(self._policies_file_path).exists()
    file_mtime,       \* policies_path.stat().st_mtime
    file_content,     \* the document stored in the file
    writes,           \* number of file writes so far (bounds the run)
    calls,            \* number of calls served so far (bounds the run)
    _policies,        \* PolicyRepository._policies
    _policy_set,      \* PolicyRepository._policy_set (version, description)
    _last_modified,   \* PolicyRepository._last_modified
    _decision_cache,  \* AuthzService._decision_cache
    loaded_doc,       \* history: the document parsed by the last successful load
    hist,             \* history: per request, its latest Evaluate since the last
                      \*          reload or file change
    last,             \* history: the call that has just returned, with what it
                      \*          found and what it returned
    loader,           \* the thread inside reload_policies: its position in
                      \*          _load_policies and its locals
    reader,           \* the thread inside a read of the repository: its
                      \*          position and what it has read so far
    complete,         \* history: the repository states that a load, run
                      \*          alone, has produced or is producing
    issued,           \* the token a client holds: what generate_token returned,
                      \*          with the call that produced it
    verified,         \* what validate_token returned for that token, and when
    users,            \* the users table of the SCIM store: userName -> row
    granted,          \* what authenticate_and_generate_token returned last
    gate              \* the request AuthMiddleware.dispatch handled last, and
                      \*          what became of it

\* the threads that run inside the repository
threads == << loader, reader, complete >>

\* the state of the authentication side
auth == << issued, verified, users, granted, gate >>

\* the objects built at import time and the records kept about calls
more == << manager, other_cache, workers, origin >>

\* the state of the authorization side, the clock aside
authz == << ticks, file_exists, file_mtime, file_content, writes, calls,
            _policies, _policy_set, _last_modified, _decision_cache,
            loaded_doc, hist, last, loader, reader, complete >>

vars == << now, ticks, file_exists, file_mtime, file_content, writes, calls,
           _policies, _policy_set, _last_modified, _decision_cache,
           loaded_doc, hist, last, loader, reader, complete, issued,
           verified, users, granted, gate, manager, other_cache, workers,
           origin >>

----------------------------------------------------------------------------
(* Bounds of the model *)

MaxTicks == 2
MaxWrites == 1
MaxCalls == 3
MaxPolicies == 3
MaxDistinct == 1010      \* Evaluate calls with pairwise distinct requests

----------------------------------------------------------------------------
(* Python values *)

PyNone == [t |-> "none", v |-> 0]
PyStr(s) == [t |-> "str", v |-> s]
PyInt(n) == [t |-> "int", v |-> n]
PyBool(b) == [t |-> "bool", v |-> b]
PyList(l) == [t |-> "list", v |-> l]

\* int and bool are both numbers in Python (True == 1).
IsNum(x) == x.t \in {"int", "bool"}
Num(x) == IF x.t = "bool" THEN (IF x.v THEN 1 ELSE 0) ELSE x.v

\* Python ==; values are compared only under one tag.
PyEq(a, b) ==
    IF IsNum(a) /\ IsNum(b) THEN Num(a) = Num(b)
    ELSE /\ a.t = b.t
         /\ a.v = b.v

\* x in <list>
PyInList(x, l) == \E i \in 1..Len(l) : PyEq(x, l[i])

\* Character codes of the strings of the model, so that str < str is
\* Python's lexicographic order and str in str is a substring test.
StrCodes(s) ==
    CASE s = "HR" -> << 72, 82 >>
      [] s = "IT" -> << 73, 84 >>
      [] s = "payroll" -> << 112, 97, 121, 114, 111, 108, 108 >>
      [] s = "data" -> << 100, 97, 116, 97 >>
      [] s = "CL" -> << 67, 76 >>
      [] s = "US" -> << 85, 83 >>
      [] s = "ADMINS" -> << 65, 68, 77, 73, 78, 83 >>
      [] s = "access" -> << 97, 99, 99, 101, 115, 115 >>
      [] s = "0:00" -> << 48, 58, 48, 48 >>
      [] s = "0:30" -> << 48, 58, 51, 48 >>
      [] s = "00:00" -> << 48, 48, 58, 48, 48 >>
      [] s = "00:30" -> << 48, 48, 58, 51, 48 >>
      [] s = "9:00" -> << 57, 58, 48, 48 >>
      [] s = "9:30" -> << 57, 58, 51, 48 >>
      [] s = "09:00" -> << 48, 57, 58, 48, 48 >>
      [] s = "09:30" -> << 48, 57, 58, 51, 48 >>
      [] s = "10:00" -> << 49, 48, 58, 48, 48 >>
      [] s = "10:30" -> << 49, 48, 58, 51, 48 >>
      [] s = "23:00" -> << 50, 51, 58, 48, 48 >>
      [] s = "23:30" -> << 50, 51, 58, 51, 48 >>
      [] OTHER -> << >>

RECURSIVE LexLess(_, _)
LexLess(a, b) ==
    IF b = << >> THEN FALSE
    ELSE IF a = << >> THEN TRUE
    ELSE IF Head(a) # Head(b) THEN Head(a) < Head(b)
    ELSE LexLess(Tail(a), Tail(b))

IsSubstring(a, b) ==
    \E i \in 0..Len(b) :
        /\ i + Len(a) <= Len(b)
        /\ \A k \in 1..Len(a) : b[i + k] = a[k]

----------------------------------------------------------------------------
(* Condition trees: the nested dicts of a policy's "conditions" *)

CAnd(subs) == [kind |-> "AND", subs |-> subs, leaf |-> << >>]
COr(subs) == [kind |-> "OR", subs |-> subs, leaf |-> << >>]
\* a dict {attr_path: {operator: value, ...}, ...} in insertion order
CLeaf(items) == [kind |-> "LEAF", subs |-> << >>, leaf |-> items]
Item(attr, op, val) == [attr |-> attr, spec |-> << [op |-> op, val |-> val] >>]

----------------------------------------------------------------------------
(* ABACEvaluator: flattening and condition evaluation *)

\* The fields of the request models that the modelled requests set; every
\* other Optional field is None and dropped by exclude_none.
RequestPaths ==
    { "subject.dept", "subject.groups", "subject.riskScore",
      "resource.type", "resource.env",
      "context.geo", "context.deviceTrusted", "context.timeOfDay" }

RequestField(request, path) ==
    CASE path = "subject.dept" -> request.subject.dept
      [] path = "subject.groups" -> request.subject.groups
      [] path = "subject.riskScore" -> request.subject.riskScore
      [] path = "resource.type" -> request.resource.type
      [] path = "resource.env" -> request.resource.env
      [] path = "context.geo" -> request.context.geo
      [] path = "context.deviceTrusted" -> request.context.deviceTrusted
      [] path = "context.timeOfDay" -> request.context.timeOfDay

\* if request.action: (None and "" are falsy)
ActionIsSet(request) ==
    /\ request.action.t = "str"
    /\ request.action.v # ""

FlattenRequest(request) ==
    LET present == { p \in RequestPaths : RequestField(request, p).t # "none" }
        keys == present \cup (IF ActionIsSet(request) THEN {"action"} ELSE {})
    IN [p \in keys |-> IF p = "action" THEN request.action
                       ELSE RequestField(request, p)]

\* context.get(attr_path)
ContextGet(context, attr_path) ==
    IF attr_path \in DOMAIN context THEN context[attr_path] ELSE PyNone

\* comparator(a, b) on integers
Comparator(op, a, b) ==
    CASE op = "gt" -> a > b
      [] op = "gte" -> a >= b
      [] op = "lt" -> a < b
      [] op = "lte" -> a <= b

\* comparator(a, b) on strings
StrComparator(op, a, b) ==
    CASE op = "gt" -> LexLess(StrCodes(b), StrCodes(a))
      [] op = "gte" -> ~ LexLess(StrCodes(a), StrCodes(b))
      [] op = "lt" -> LexLess(StrCodes(a), StrCodes(b))
      [] op = "lte" -> ~ LexLess(StrCodes(b), StrCodes(a))

\* The direct comparison succeeds for number/number and str/str; every
\* other pair raises TypeError, and the fallbacks (float() of a string that
\* is not a number, "timeOfDay" sought in the value) yield False for the
\* values of this model.
SafeCompare(actual, expected, op) ==
    IF IsNum(actual) /\ IsNum(expected)
        THEN Comparator(op, Num(actual), Num(expected))
    ELSE IF actual.t = "str" /\ expected.t = "str"
        THEN StrComparator(op, actual.v, expected.v)
    ELSE FALSE

SafeContains(container, item) ==
    IF container.t = "list" THEN PyInList(item, container.v)
    ELSE IF container.t = "str"
        THEN /\ item.t = "str"
             /\ IsSubstring(StrCodes(item.v), StrCodes(container.v))
    ELSE FALSE

\* `x if expected_value else y`: an empty list is falsy
Truthy(x) ==
    CASE x.t = "list" -> x.v # << >>
      [] x.t = "str" -> x.v # ""
      [] x.t = "int" -> x.v # 0
      [] x.t = "bool" -> x.v
      [] OTHER -> FALSE

\* `a in b` is defined for a list b, and for strings a and b; on any other
\* pair it raises TypeError
InDefined(a, b) == b.t = "list" \/ (a.t = "str" /\ b.t = "str")
PyIn(a, b) ==
    IF b.t = "list" THEN PyInList(a, b.v)
    ELSE IsSubstring(StrCodes(a.v), StrCodes(b.v))

\* an exception raised by an operator is caught and gives False
ApplyOperator(actual_value, operator, expected_value) ==
    CASE operator = "eq" -> PyEq(actual_value, expected_value)
      [] operator = "ne" -> ~ PyEq(actual_value, expected_value)
      [] operator \in {"gt", "gte", "lt", "lte"} ->
            SafeCompare(actual_value, expected_value, operator)
      [] operator = "in" ->
            IF Truthy(expected_value)
            THEN InDefined(actual_value, expected_value)
                 /\ PyIn(actual_value, expected_value)
            ELSE FALSE
      [] operator = "not_in" ->
            IF Truthy(expected_value)
            THEN InDefined(actual_value, expected_value)
                 /\ ~ PyIn(actual_value, expected_value)
            ELSE TRUE
      [] operator = "contains" -> SafeContains(actual_value, expected_value)
      [] operator = "not_contains" -> ~ SafeContains(actual_value, expected_value)
      [] OTHER -> FALSE

EvaluateSimpleCondition(attr_path, condition_spec, context) ==
    LET actual_value == ContextGet(context, attr_path)
    IN \A i \in 1..Len(condition_spec) :
           ApplyOperator(actual_value, condition_spec[i].op, condition_spec[i].val)

RECURSIVE EvaluatePolicyConditions(_, _)
EvaluatePolicyConditions(conditions, context) ==
    CASE conditions.kind = "AND" ->
            \A i \in 1..Len(conditions.subs) :
                EvaluatePolicyConditions(conditions.subs[i], context)
      [] conditions.kind = "OR" ->
            \E i \in 1..Len(conditions.subs) :
                EvaluatePolicyConditions(conditions.subs[i], context)
      [] OTHER ->
            \A i \in 1..Len(conditions.leaf) :
                EvaluateSimpleCondition(conditions.leaf[i].attr,
                                        conditions.leaf[i].spec, context)

----------------------------------------------------------------------------
(* The policy file: a JSON document, or text that is not JSON.               *)
(* A policy of the document is a dict: fields is the set of its keys, and    *)
(* the value of a key that is absent is never read.                          *)

RawPolicy(ruleId, effect, priority, conditions) ==
    [fields |-> {"ruleId", "effect", "description", "conditions", "priority"},
     ruleId |-> ruleId, effect |-> effect, description |-> "d",
     priority |-> priority, conditions |-> conditions]

\* the same dict without its "priority" key
NoPriority(policy_dict) ==
    [policy_dict EXCEPT !.fields = @ \ {"priority"}]

Document(version, policies) ==
    [json_ok |-> TRUE, has_policies |-> TRUE, version |-> version,
     description |-> "", policies |-> policies]

\* text that json.load rejects
NotJson ==
    [json_ok |-> FALSE, has_policies |-> FALSE, version |-> "",
     description |-> "", policies |-> << >>]

----------------------------------------------------------------------------
(* PolicyValidator *)

SUPPORTED_OPERATORS ==
    {"eq", "ne", "gt", "gte", "lt", "lte", "in", "not_in", "contains", "not_contains"}

VALID_ATTRIBUTES ==
    [subject |-> {"dept", "groups", "riskScore", "role", "clearanceLevel"},
     resource |-> {"type", "env", "classification", "owner", "sensitivity"},
     context |-> {"geo", "deviceTrusted", "timeOfDay", "dayOfWeek", "ipAddress",
                  "userAgent"}]

\* attr_path.split(".", 1) for the attribute paths of the model
SplitPath(attr_path) ==
    CASE attr_path = "subject.dept" -> << "subject", "dept" >>
      [] attr_path = "subject.groups" -> << "subject", "groups" >>
      [] attr_path = "subject.riskScore" -> << "subject", "riskScore" >>
      [] attr_path = "resource.type" -> << "resource", "type" >>
      [] attr_path = "resource.env" -> << "resource", "env" >>
      [] attr_path = "context.geo" -> << "context", "geo" >>
      [] attr_path = "context.deviceTrusted" -> << "context", "deviceTrusted" >>
      [] attr_path = "context.timeOfDay" -> << "context", "timeOfDay" >>
      [] attr_path = "subject.salary" -> << "subject", "salary" >>
      [] attr_path = "user.dept" -> << "user", "dept" >>
      [] OTHER -> << attr_path >>      \* no "." in the path

ValidateAttributePath(attr_path) ==
    LET parts == SplitPath(attr_path)
    IN IF Len(parts) = 1 THEN << "must contain domain" >>
       ELSE IF parts[1] \notin DOMAIN VALID_ATTRIBUTES THEN << "Invalid domain" >>
       ELSE IF parts[2] \notin VALID_ATTRIBUTES[parts[1]] THEN << "Invalid attribute" >>
       ELSE << >>

ValidateOperatorValue(operator, value) ==
    IF operator \in {"in", "not_in"}
        THEN IF value.t # "list" THEN << "requires a list value" >> ELSE << >>
    ELSE IF operator \in {"gt", "gte", "lt", "lte"}
        THEN IF value.t \notin {"int", "bool", "str"}
             THEN << "requires a comparable value" >> ELSE << >>
    ELSE << >>

RECURSIVE ConcatAll(_)
ConcatAll(seqs) ==
    IF seqs = << >> THEN << >> ELSE Head(seqs) \o ConcatAll(Tail(seqs))

ValidateOperators(condition) ==
    ConcatAll([i \in 1..Len(condition) |->
        (IF condition[i].op \notin SUPPORTED_OPERATORS
         THEN << "Unsupported operator" >> ELSE << >>)
        \o ValidateOperatorValue(condition[i].op, condition[i].val)])

RECURSIVE ValidateConditions(_)
ValidateConditions(conditions) ==
    IF conditions.kind \in {"AND", "OR"}
    THEN ConcatAll([i \in 1..Len(conditions.subs) |->
                        ValidateConditions(conditions.subs[i])])
    ELSE ConcatAll([i \in 1..Len(conditions.leaf) |->
                        ValidateAttributePath(conditions.leaf[i].attr)
                        \o ValidateOperators(conditions.leaf[i].spec)])

ValidateSinglePolicy(policy_dict) ==
    LET required_fields == << "ruleId", "effect", "description", "conditions" >>
        missing == ConcatAll([i \in 1..4 |->
                       IF required_fields[i] \notin policy_dict.fields
                       THEN << "Missing required field" >> ELSE << >>])
        effect == IF "effect" \in policy_dict.fields
                     /\ policy_dict.effect \notin {"Permit", "Deny", "Challenge"}
                  THEN << "Invalid effect" >> ELSE << >>
        conds == IF "conditions" \in policy_dict.fields
                 THEN ValidateConditions(policy_dict.conditions) ELSE << >>
        prio == IF "priority" \in policy_dict.fields /\ policy_dict.priority < 0
                THEN << "Priority must be a non-negative integer" >> ELSE << >>
    IN missing \o effect \o conds \o prio

HasDuplicateRuleIds(policies) ==
    \E i, j \in 1..Len(policies) :
        /\ i < j
        /\ "ruleId" \in policies[i].fields
        /\ "ruleId" \in policies[j].fields
        /\ policies[i].ruleId = policies[j].ruleId

\* errors only; the warnings are logged and change nothing
ValidatePolicySetRules(policies) ==
    IF HasDuplicateRuleIds(policies) THEN << "Duplicate ruleIds found" >> ELSE << >>

\* ABACPolicySet(**policy_data): the field validators of ABACPolicy
PydanticErrors(policies) ==
    IF \E i \in 1..Len(policies) :
          \/ ~ ({"ruleId", "effect", "description", "conditions"} \subseteq policies[i].fields)
          \/ policies[i].ruleId = ""
          \/ policies[i].effect \notin {"Permit", "Deny", "Challenge"}
          \/ (policies[i].conditions.kind = "LEAF" /\ policies[i].conditions.leaf = << >>)
       \/ HasDuplicateRuleIds(policies)
    THEN << "Pydantic validation failed" >> ELSE << >>

\* A PolicyValidationResult.  policy_data is a parsed document.
ValidatePolicySet(policy_data) ==
    IF ~ policy_data.has_policies
    THEN [valid |-> FALSE, errors |-> << "Missing 'policies' key in policy data" >>,
          policies_count |-> 0]
    ELSE LET policies == policy_data.policies
             errors == ConcatAll([i \in 1..Len(policies) |->
                                     ValidateSinglePolicy(policies[i])])
                       \o ValidatePolicySetRules(policies)
                       \o PydanticErrors(policies)
         IN [valid |-> Len(errors) = 0, errors |-> errors,
             policies_count |-> Len(policies)]

----------------------------------------------------------------------------
(* PolicyRepository.  repo is the record of its three fields; file is the    *)
(* record [exists, mtime, content] of what the file system holds.            *)

NoExc == ""
NoneTime == -1        \* _last_modified is None

\* datetime.fromtimestamp: order-preserving on the timestamps of a run
FromTimestamp(t) == t

\* ABACPolicy(**policy_dict): priority defaults to 100 when the key is absent
ABACPolicy(policy_dict) ==
    [ruleId |-> policy_dict.ruleId, effect |-> policy_dict.effect,
     description |-> policy_dict.description,
     conditions |-> policy_dict.conditions,
     priority |-> IF "priority" \in policy_dict.fields
                  THEN policy_dict.priority ELSE 100]

\* key=lambda p: p.priority or 100
SortKey(p) == IF p.priority = 0 THEN 100 ELSE p.priority

\* list.sort is stable: p goes after every element whose key is <= its own
RECURSIVE InsertByKey(_, _)
InsertByKey(sorted, p) ==
    IF sorted = << >> THEN << p >>
    ELSE IF SortKey(Head(sorted)) <= SortKey(p)
         THEN << Head(sorted) >> \o InsertByKey(Tail(sorted), p)
         ELSE << p >> \o sorted

RECURSIVE SortPolicies(_)
SortPolicies(policies) ==
    IF policies = << >> THEN << >>
    ELSE InsertByKey(SortPolicies(SubSeq(policies, 1, Len(policies) - 1)),
                     policies[Len(policies)])

\* a variant that records the file's mtime before it parses and validates
LoadPoliciesMtimeFirst(repo, file) ==
    IF ~ file.exists
    THEN [exc |-> NoExc,
          repo |-> [_policies |-> << >>,
                    _policy_set |-> [is_none |-> FALSE, version |-> "1.0",
                                     description |-> ""],
                    _last_modified |-> repo._last_modified]]
    ELSE IF ~ file.content.json_ok
    THEN [exc |-> "Invalid JSON in policies file",
          repo |-> [repo EXCEPT !._last_modified = FromTimestamp(file.mtime)]]
    ELSE IF ~ ValidatePolicySet(file.content).valid
    THEN [exc |-> "Failed to load policies: Invalid policies",
          repo |-> [repo EXCEPT !._last_modified = FromTimestamp(file.mtime)]]
    ELSE [exc |-> NoExc,
          repo |-> [_policies |->
                        SortPolicies([i \in 1..Len(file.content.policies) |->
                                         ABACPolicy(file.content.policies[i])]),
                    _policy_set |-> [is_none |-> FALSE,
                                     version |-> file.content.version,
                                     description |-> file.content.description],
                    _last_modified |-> FromTimestamp(file.mtime)]]

\* _load_policies: the repository after the call and the exception raised.
\* _policy_set.policies is the list object _policies, so only version and
\* description are kept in _policy_set.
LoadPolicies(repo, file) ==
    IF ~ file.exists
    THEN [exc |-> NoExc,
          repo |-> [_policies |-> << >>,
                    _policy_set |-> [is_none |-> FALSE, version |-> "1.0",
                                     description |-> ""],
                    _last_modified |-> repo._last_modified]]
    ELSE IF ~ file.content.json_ok
    THEN [exc |-> "Invalid JSON in policies file", repo |-> repo]
    ELSE IF ~ ValidatePolicySet(file.content).valid
    THEN [exc |-> "Failed to load policies: Invalid policies", repo |-> repo]
    ELSE [exc |-> NoExc,
          repo |-> [_policies |->
                        SortPolicies([i \in 1..Len(file.content.policies) |->
                                         ABACPolicy(file.content.policies[i])]),
                    _policy_set |-> [is_none |-> FALSE,
                                     version |-> file.content.version,
                                     description |-> file.content.description],
                    _last_modified |-> FromTimestamp(file.mtime)]]

ShouldReload(repo, file) ==
    /\ file.exists
    /\ \/ repo._last_modified = NoneTime
       \/ FromTimestamp(file.mtime) > repo._last_modified

\* get_all_policies after its hot reload: _load_policies is not guarded, so
\* its exception leaves get_all_policies; otherwise the copy is returned
HotReloaded(loaded) ==
    [exc |-> loaded.exc, repo |-> loaded.repo,
     policies |-> IF loaded.exc = NoExc THEN loaded.repo._policies ELSE << >>,
     reloaded |-> TRUE]

\* get_all_policies: the copy returned, or the exception of the hot reload
GetAllPolicies(repo, file) ==
    IF ShouldReload(repo, file)
    THEN HotReloaded(LoadPolicies(repo, file))
    ELSE [exc |-> NoExc, repo |-> repo, policies |-> repo._policies,
          reloaded |-> FALSE]

\* reload_policies after _load_policies: PolicyRepositoryError is caught and
\* reported as valid=False
ReloadResult(loaded) ==
    IF loaded.exc = NoExc
    THEN [repo |-> loaded.repo,
          result |-> [valid |-> TRUE, errors |-> << >>,
                      policies_count |-> Len(loaded.repo._policies)]]
    ELSE [repo |-> loaded.repo,
          result |-> [valid |-> FALSE, errors |-> << loaded.exc >>,
                      policies_count |-> Len(loaded.repo._policies)]]

\* PolicyRepository.reload_policies
RepoReloadPolicies(repo, file) == ReloadResult(LoadPolicies(repo, file))

----------------------------------------------------------------------------
(* ABACEvaluator.evaluate *)

ABACResponse(decision, reasons, advice, obligations) ==
    [decision |-> decision, reasons |-> reasons, advice |-> advice,
     obligations |-> obligations]

\* the "ruleId: <id>" entries of the applicable policies of one effect, in
\* the order of the list
RECURSIVE MatchedReasons(_, _, _)
MatchedReasons(policies, context, effect) ==
    IF policies = << >> THEN << >>
    ELSE (IF /\ EvaluatePolicyConditions(Head(policies).conditions, context)
             /\ Head(policies).effect = effect
          THEN << << "ruleId", Head(policies).ruleId >> >>
          ELSE << >>)
         \o MatchedReasons(Tail(policies), context, effect)

\* a variant that lets an explicit Permit win
MakeDecisionPermitFirst(permit_reasons, deny_reasons, challenge_reasons) ==
    IF permit_reasons # << >>
    THEN ABACResponse("Permit", permit_reasons, << >>,
                      << << "Log successful access" >> >>)
    ELSE IF deny_reasons # << >>
    THEN ABACResponse("Deny", deny_reasons,
                      << << "Access explicitly denied by policy" >> >>,
                      << << "Log denied access attempt" >> >>)
    ELSE IF challenge_reasons # << >>
    THEN ABACResponse("Challenge", challenge_reasons,
                      << << "Additional authentication required" >>,
                         << "Contact administrator if needed" >> >>,
                      << << "Log challenge requirement" >>,
                         << "Initiate step-up authentication" >> >>)
    ELSE ABACResponse("Deny", << << "No applicable policies found" >> >>,
                      << << "Contact administrator for access" >>,
                         << "Review policy configuration" >> >>,
                      << << "Log policy gap" >>, << "Alert security team" >> >>)

MakeDecision(permit_reasons, deny_reasons, challenge_reasons) ==
    IF deny_reasons # << >>
    THEN ABACResponse("Deny", deny_reasons,
                      << << "Access explicitly denied by policy" >> >>,
                      << << "Log denied access attempt" >> >>)
    ELSE IF challenge_reasons # << >>
    THEN ABACResponse("Challenge", challenge_reasons,
                      << << "Additional authentication required" >>,
                         << "Contact administrator if needed" >> >>,
                      << << "Log challenge requirement" >>,
                         << "Initiate step-up authentication" >> >>)
    ELSE IF permit_reasons # << >>
    THEN ABACResponse("Permit", permit_reasons, << >>,
                      << << "Log successful access" >> >>)
    ELSE ABACResponse("Deny", << << "No applicable policies found" >> >>,
                      << << "Contact administrator for access" >>,
                         << "Review policy configuration" >> >>,
                      << << "Log policy gap" >>, << "Alert security team" >> >>)

\* a variant that fails open
EvaluatorErrorResponseFailOpen(exc) ==
    ABACResponse("Permit", << << "Evaluation error", exc >> >>,
                 << << "Contact system administrator" >> >>,
                 << << "Log evaluation failure" >> >>)

\* the except branch of ABACEvaluator.evaluate
EvaluatorErrorResponse(exc) ==
    ABACResponse("Deny", << << "Evaluation error", exc >> >>,
                 << << "Contact system administrator" >> >>,
                 << << "Log evaluation failure" >> >>)

\* ABACEvaluator.evaluate.  exc is the exception met inside the try block;
\* raised tells whether it leaves the method (the except branch returns a
\* response instead).
EvaluateOver(got, context) ==
    IF got.exc # NoExc
    THEN [response |-> EvaluatorErrorResponse(got.exc), raised |-> FALSE,
          repo |-> got.repo, exc |-> got.exc, policies |-> got.policies,
          reloaded |-> got.reloaded]
    ELSE [response |-> MakeDecision(
                           MatchedReasons(got.policies, context, "Permit"),
                           MatchedReasons(got.policies, context, "Deny"),
                           MatchedReasons(got.policies, context, "Challenge")),
          raised |-> FALSE,
          repo |-> got.repo, exc |-> NoExc, policies |-> got.policies,
          reloaded |-> got.reloaded]

EvaluatorEvaluate(request, repo, file) ==
    EvaluateOver(GetAllPolicies(repo, file), FlattenRequest(request))

----------------------------------------------------------------------------
(* AuthzService: decision cache and orchestration *)

CACHE_TTL == 300
CACHE_LIMIT == 1000

\* md5 of str(sorted(cache_data.items())): the four dumps in key order
GenerateCacheKey(request) ==
    << request.action, request.context, request.resource, request.subject >>

NoResponse == ABACResponse("None", << >>, << >>, << >>)

\* a variant that expires an entry as soon as its age reaches the TTL
GetFromCacheStrict(cache, cache_key, t) ==
    IF cache_key \notin DOMAIN cache
    THEN [hit |-> FALSE, response |-> NoResponse, cache |-> cache]
    ELSE IF t - cache[cache_key].timestamp >= CACHE_TTL
    THEN [hit |-> FALSE, response |-> NoResponse,
          cache |-> [k \in DOMAIN cache \ {cache_key} |-> cache[k]]]
    ELSE [hit |-> TRUE, response |-> cache[cache_key].response, cache |-> cache]

\* _get_from_cache: the response (hit) or None, and the cache afterwards
GetFromCache(cache, cache_key, t) ==
    IF cache_key \notin DOMAIN cache
    THEN [hit |-> FALSE, response |-> NoResponse, cache |-> cache]
    ELSE IF t - cache[cache_key].timestamp > CACHE_TTL
    THEN [hit |-> FALSE, response |-> NoResponse,
          cache |-> [k \in DOMAIN cache \ {cache_key} |-> cache[k]]]
    ELSE [hit |-> TRUE, response |-> cache[cache_key].response, cache |-> cache]

CleanExpiredCache(cache, t) ==
    LET expired_keys == { k \in DOMAIN cache : t - cache[k].timestamp > CACHE_TTL }
    IN [k \in DOMAIN cache \ expired_keys |-> cache[k]]

StoreInCache(cache, cache_key, response, t) ==
    LET stored == [k \in DOMAIN cache \cup {cache_key} |->
                      IF k = cache_key
                      THEN [response |-> response, timestamp |-> t]
                      ELSE cache[k]]
    IN IF Cardinality(DOMAIN stored) > CACHE_LIMIT
       THEN CleanExpiredCache(stored, t)
       ELSE stored

EmptyCache == [k \in {} |-> NoResponse]

\* a variant that clears nothing
ClearCacheKeep(cache) == cache

ClearCache(cache) == EmptyCache

EnrichResponse(response, correlation_id) ==
    IF response.decision \in {"Challenge", "Deny"}
    THEN [response EXCEPT !.obligations =
              Append(@, << "correlation_id", correlation_id >>)]
    ELSE response

\* the except branch of evaluate_authorization
ServiceErrorResponse(exc) ==
    ABACResponse("Deny", << << "Evaluation error", exc >> >>,
                 << << "Contact system administrator" >> >>,
                 << << "Log authorization failure" >>, << "Alert security team" >> >>)

\* the entry the cache holds for a key when the call starts
EntryOf(cache, cache_key) ==
    IF cache_key \in DOMAIN cache
    THEN [present |-> TRUE, timestamp |-> cache[cache_key].timestamp]
    ELSE [present |-> FALSE, timestamp |-> 0]

\* evaluate_authorization after _enrich_response: the response is stored
\* and returned; an exception that left the evaluator goes to the except
\* branch, which returns its own Deny and stores nothing
StoreAndReturn(evaluated, response, cache, cache_key, t) ==
    IF evaluated.raised
    THEN [response |-> ServiceErrorResponse(evaluated.exc),
          from_cache |-> FALSE, raised |-> FALSE,
          cache |-> cache, repo |-> evaluated.repo,
          exc |-> evaluated.exc, policies |-> evaluated.policies,
          reloaded |-> evaluated.reloaded]
    ELSE [response |-> response, from_cache |-> FALSE, raised |-> FALSE,
          cache |-> StoreInCache(cache, cache_key, response, t),
          repo |-> evaluated.repo, exc |-> evaluated.exc,
          policies |-> evaluated.policies, reloaded |-> evaluated.reloaded]

\* evaluate_authorization after the evaluator returned
EnrichAndReturn(evaluated, correlation_id, cache, cache_key, t) ==
    StoreAndReturn(evaluated, EnrichResponse(evaluated.response, correlation_id),
                   cache, cache_key, t)

\* evaluate_authorization after the cache lookup: a hit is returned as it
\* was stored, before the evaluator or the repository is asked
LookedUp(cached, request, correlation_id, cache_key, repo, file, t) ==
    IF cached.hit
    THEN [response |-> cached.response, from_cache |-> TRUE, raised |-> FALSE,
          cache |-> cached.cache, repo |-> repo, exc |-> NoExc,
          policies |-> << >>, reloaded |-> FALSE]
    ELSE EnrichAndReturn(EvaluatorEvaluate(request, repo, file), correlation_id,
                         cached.cache, cache_key, t)

\* evaluate_authorization, from the cache lookup to the return
EvaluateAuthorization(request, correlation_id, cache, repo, file, t) ==
    LookedUp(GetFromCache(cache, GenerateCacheKey(request), t), request,
             correlation_id, GenerateCacheKey(request), repo, file, t)

----------------------------------------------------------------------------
(* The policies, documents, requests and correlation ids of the model *)

Leaf1(attr, op, val) == CLeaf(<< Item(attr, op, val) >>)

PolicyHRPermit ==
    RawPolicy("HR-PERMIT-01", "Permit", 10,
              CAnd(<< Leaf1("subject.dept", "eq", PyStr("HR")),
                      Leaf1("resource.type", "eq", PyStr("payroll")) >>))
PolicyRiskChallenge ==
    RawPolicy("HIGH-RISK-CHALLENGE", "Challenge", 5,
              Leaf1("subject.riskScore", "gte", PyInt(70)))
PolicyHRDeny ==
    NoPriority(RawPolicy("HR-DENY-01", "Deny", 0,
                         Leaf1("subject.dept", "eq", PyStr("HR"))))
PolicyHRPermit50 ==
    RawPolicy("HR-PERMIT-50", "Permit", 50,
              Leaf1("subject.dept", "eq", PyStr("HR")))
PolicyGeoChallenge0 ==
    RawPolicy("GEO-CHALLENGE-00", "Challenge", 0,
              COr(<< Leaf1("context.geo", "not_in",
                           PyList(<< PyStr("CL") >>)) >>))
PolicyBadOperator ==
    RawPolicy("BAD-OPERATOR", "Permit", 10,
              Leaf1("subject.dept", "matches", PyStr("HR")))

DocTest == Document("1.0", << PolicyHRPermit, PolicyRiskChallenge >>)
DocDenyOnly == Document("2.0", << PolicyHRDeny >>)
DocPriorityZero == Document("3.0", << PolicyHRPermit50, PolicyGeoChallenge0 >>)
DocBadOperator == Document("4.0", << PolicyHRPermit, PolicyBadOperator >>)

PolicyDataPermit ==
    RawPolicy("DATA-PERMIT-01", "Permit", 1,
              Leaf1("resource.type", "in", PyList(<< PyStr("data") >>)))

PolicyPool == { PolicyHRPermit, PolicyRiskChallenge, PolicyHRDeny,
                PolicyHRPermit50, PolicyGeoChallenge0, PolicyDataPermit }

\* every document of at most MaxPolicies policies of the pool that loads
WideDocs ==
    LET lists == UNION { [1..n -> PolicyPool] : n \in 0..MaxPolicies }
    IN { d \in { Document("1.0", l) : l \in lists } : ValidatePolicySet(d).valid }

\* the files the service is started on, and the files a writer puts in place
\* while it runs: a valid one, one the validator rejects, one that is not JSON
DeployedDocs == { DocTest, DocPriorityZero }
FileDocs == { DocDenyOnly, DocBadOperator, NotJson }

Subject(dept, riskScore) ==
    [dept |-> dept, groups |-> PyList(<< >>), riskScore |-> riskScore]
Resource(type) == [type |-> type, env |-> PyNone]
Context(geo) == [geo |-> geo, deviceTrusted |-> PyNone, timeOfDay |-> PyNone]
ABACRequest(subject, resource, context) ==
    [subject |-> subject, resource |-> resource, context |-> context,
     action |-> PyStr("access")]

ReqHR == ABACRequest(Subject(PyStr("HR"), PyInt(20)), Resource(PyStr("payroll")),
                     Context(PyStr("CL")))
ReqRisk == ABACRequest(Subject(PyStr("IT"), PyInt(80)), Resource(PyStr("data")),
                       Context(PyStr("US")))
Requests == { ReqHR, ReqRisk }

\* the X-Correlation-ID of a call; "" stands for a call without one
CorrelationIds == { "c1", "" }
\* the calls of one client, which sends the same X-Correlation-ID each time
ClientIds == { "c1" }
\* _generate_correlation_id: some "authz-<8 hex digits>"
GeneratedIds == { "authz-0a" }

----------------------------------------------------------------------------
(* JWTManager: generate_token and validate_token over PyJWT.  Time is in     *)
(* seconds; a token is the JSON payload with the key that signed it.         *)

\* Settings: the JWT fields and their defaults
Settings ==
    [jwt_secret |-> "your-super-secret-jwt-key-change-in-production",
     jwt_algorithm |-> "HS256", jwt_expiration_minutes |-> 60,
     jwt_issuer |-> "identity-microservice", jwt_audience |-> "identity-api"]

\* Settings.environment after model_post_init
Environments == { "development", "testing", "production" }

\* the private key of a pair generated in the process, and the public key
\* that goes with a private key (a pair is named by its private key)
GeneratedKey == "generated"
PublicKeyOf(private_key) == private_key

\* no JWTManager has been constructed in the process
NoManager ==
    [constructed |-> FALSE, exc |-> NoExc, environment |-> "development",
     _algorithm |-> "", _secret_key |-> "", _private_key |-> "",
     _public_key |-> "", generated |-> FALSE]

\* JWTManager.__init__ and _load_keys: the manager constructed from the
\* settings and the variables JWT_PRIVATE_KEY and JWT_PUBLIC_KEY ("" when
\* unset), or the JWTManagerError that ends the construction; a pair is
\* generated by _generate_rsa_keys when either variable is missing
LoadKeys(algorithm, jwt_secret, private_key_data, public_key_data, environment) ==
    LET raise(e) == [NoManager EXCEPT !.exc = e, !.environment = environment,
                                      !._algorithm = algorithm]
        loaded == [NoManager EXCEPT !.constructed = TRUE,
                                    !.environment = environment,
                                    !._algorithm = algorithm]
    IN IF algorithm = "HS256"
       THEN IF jwt_secret = "" THEN raise("JWTManagerError")
            ELSE [loaded EXCEPT !._secret_key = jwt_secret]
       ELSE IF algorithm = "RS256"
       THEN IF private_key_data # "" /\ public_key_data # ""
            THEN [loaded EXCEPT !._private_key = private_key_data,
                                !._public_key = public_key_data]
            ELSE [loaded EXCEPT !._private_key = GeneratedKey,
                                !._public_key = PublicKeyOf(GeneratedKey),
                                !.generated = TRUE]
       ELSE raise("JWTManagerError")

\* the manager of a process started with the default settings
DefaultManager ==
    LoadKeys(Settings.jwt_algorithm, Settings.jwt_secret, "", "", "development")

\* a datetime, and timedelta(minutes=m) added to it
Datetime(t) == [t |-> "datetime", v |-> t]
PlusMinutes(d, m) == Datetime(d.v + 60 * m)

\* {**a, **b}: the keys of both, b's value where both have the key
DictMerge(a, b) ==
    [k \in DOMAIN a \cup DOMAIN b |-> IF k \in DOMAIN b THEN b[k] ELSE a[k]]

\* timegm(d.utctimetuple())
Timegm(d) == d.v

\* jwt.encode: the datetimes of exp, iat and nbf become integer timestamps,
\* the payload is serialised as JSON members and signed with the key (the
\* payloads of the model carry no time claim of their own)
JwtEncode(claims, key) ==
    [members |-> { << k, IF k \in {"exp", "iat", "nbf"} THEN Timegm(claims[k])
                         ELSE claims[k] >> : k \in DOMAIN claims },
     signed_with |-> key]

\* generate_token(payload, expires_in_minutes) at time t
GenerateToken(payload, expires_in_minutes, t) ==
    JwtEncode(DictMerge([iat |-> Datetime(t),
                         exp |-> PlusMinutes(Datetime(t), expires_in_minutes),
                         iss |-> Settings.jwt_issuer,
                         aud |-> Settings.jwt_audience], payload),
              Settings.jwt_secret)

\* json.loads of the payload segment
JsonLoads(members) ==
    [k \in { m[1] : m \in members } |-> (CHOOSE m \in members : m[1] = k)[2]]

\* a variant that checks the signature and the times only
JwtDecodeTimesOnly(token, key, issuer, audience, t) ==
    LET payload == JsonLoads(token.members)
        raise(e) == [exc |-> e, payload |-> << >>]
    IN IF token.signed_with # key THEN raise("InvalidSignatureError")
       ELSE IF "iat" \in DOMAIN payload /\ payload.iat > t
       THEN raise("ImmatureSignatureError")
       ELSE IF "exp" \in DOMAIN payload /\ payload.exp <= t
       THEN raise("ExpiredSignatureError")
       ELSE [exc |-> NoExc, payload |-> payload]

\* jwt.decode(token, key, issuer=, audience=) at time t with verify_signature,
\* verify_exp, verify_iat, verify_iss and verify_aud: the signature first,
\* then iat, exp, iss and aud in this order; exc names the PyJWT exception
JwtDecode(token, key, issuer, audience, t) ==
    LET payload == JsonLoads(token.members)
        raise(e) == [exc |-> e, payload |-> << >>]
    IN IF token.signed_with # key THEN raise("InvalidSignatureError")
       ELSE IF "iat" \in DOMAIN payload /\ payload.iat > t
       THEN raise("ImmatureSignatureError")
       ELSE IF "exp" \in DOMAIN payload /\ payload.exp <= t
       THEN raise("ExpiredSignatureError")
       ELSE IF "iss" \notin DOMAIN payload THEN raise("MissingRequiredClaimError")
       ELSE IF payload.iss # issuer THEN raise("InvalidIssuerError")
       ELSE IF "aud" \notin DOMAIN payload THEN raise("MissingRequiredClaimError")
       ELSE IF payload.aud # audience THEN raise("InvalidAudienceError")
       ELSE [exc |-> NoExc, payload |-> payload]

\* a variant that reports an expired token as an invalid one
ValidatedExpiredAsInvalid(decoded) ==
    IF decoded.exc = NoExc THEN decoded
    ELSE [exc |-> "TokenInvalidError", payload |-> << >>]

\* validate_token after jwt.decode: ExpiredSignatureError becomes
\* TokenExpiredError, every other jwt.InvalidTokenError TokenInvalidError
Validated(decoded) ==
    IF decoded.exc = NoExc THEN decoded
    ELSE IF decoded.exc = "ExpiredSignatureError"
    THEN [exc |-> "TokenExpiredError", payload |-> << >>]
    ELSE [exc |-> "TokenInvalidError", payload |-> << >>]

\* JWTManager.validate_token(token) at time t
ValidateToken(token, t) ==
    Validated(JwtDecode(token, Settings.jwt_secret, Settings.jwt_issuer,
                        Settings.jwt_audience, t))

\* UserClaims(sub=..., ...): the fields validate_token_and_get_claims takes
\* from the decoded claims, riskScore within 0..100
UserClaims(decoded_claims) ==
    [sub |-> decoded_claims.sub, scope |-> decoded_claims.scope,
     groups |-> IF "groups" \in DOMAIN decoded_claims THEN decoded_claims.groups
                ELSE << >>,
     dept |-> decoded_claims.dept, riskScore |-> decoded_claims.riskScore,
     iss |-> decoded_claims.iss, aud |-> decoded_claims.aud,
     exp |-> Datetime(decoded_claims.exp), iat |-> Datetime(decoded_claims.iat)]

\* a variant that leaves the groups at their default
ClaimsOfNoGroups(validated) ==
    IF validated.exc # NoExc
       \/ ~ ({"sub", "scope", "dept", "riskScore"} \subseteq DOMAIN validated.payload)
       \/ validated.payload.riskScore \notin 0..100
    THEN [exc |-> "AuthServiceError", jwt_exc |-> validated.exc,
          payload |-> validated.payload, claims |-> << >>]
    ELSE [exc |-> NoExc, jwt_exc |-> NoExc, payload |-> validated.payload,
          claims |-> [UserClaims(validated.payload) EXCEPT !.groups = << >>]]

\* validate_token_and_get_claims after validate_token: any exception, that
\* of validate_token, a missing key or a rejected field, is raised as
\* AuthServiceError
ClaimsOf(validated) ==
    IF validated.exc # NoExc
       \/ ~ ({"sub", "scope", "dept", "riskScore"} \subseteq DOMAIN validated.payload)
       \/ validated.payload.riskScore \notin 0..100
    THEN [exc |-> "AuthServiceError", jwt_exc |-> validated.exc,
          payload |-> validated.payload, claims |-> << >>]
    ELSE [exc |-> NoExc, jwt_exc |-> NoExc, payload |-> validated.payload,
          claims |-> UserClaims(validated.payload)]

\* AuthService.validate_token_and_get_claims(token) at time t
ValidateTokenAndGetClaims(token, t) == ClaimsOf(ValidateToken(token, t))

----------------------------------------------------------------------------
(* AuthService.authenticate_and_generate_token.  A scope string is the       *)
(* sequence of its space-separated tokens.                                   *)

\* CredentialsValidator.MOCK_CLIENTS and MOCK_USERS
MOCK_CLIENTS ==
    [test_client |->
         [secret |-> "test_secret", scopes |-> << "read", "write" >>,
          user_data |-> [sub |-> "test_client", dept |-> "IT",
                         groups |-> << "API_CLIENTS" >>, riskScore |-> 10]],
     hr_app |->
         [secret |-> "hr_secret_2024", scopes |-> << "read", "write", "hr:payroll" >>,
          user_data |-> [sub |-> "hr_app", dept |-> "HR",
                         groups |-> << "HR_READERS", "HR_WRITERS" >>,
                         riskScore |-> 15]]]
MOCK_USERS ==
    [jdoe |-> [password |-> "password123",
               data |-> [sub |-> "jdoe", dept |-> "HR",
                         groups |-> << "HR_READERS" >>, riskScore |-> 20]],
     agonzalez |-> [password |-> "finance2024",
                    data |-> [sub |-> "agonzalez", dept |-> "Finance",
                              groups |-> << "FIN_APPROVERS" >>, riskScore |-> 30]],
     mrios |-> [password |-> "admin_pass",
                data |-> [sub |-> "mrios", dept |-> "IT",
                          groups |-> << "ADMINS" >>, riskScore |-> 15]]]

\* a lookup that found nothing
NoUserData == [found |-> FALSE, data |-> << >>]

\* CredentialsValidator.validate_client_credentials and validate_user_password
ValidateClientCredentials(client_id, client_secret) ==
    IF client_id \in DOMAIN MOCK_CLIENTS /\ MOCK_CLIENTS[client_id].secret = client_secret
    THEN [found |-> TRUE, data |-> MOCK_CLIENTS[client_id].user_data]
    ELSE NoUserData
ValidateUserPassword(username, password) ==
    IF username \in DOMAIN MOCK_USERS /\ MOCK_USERS[username].password = password
    THEN [found |-> TRUE, data |-> MOCK_USERS[username].data]
    ELSE NoUserData

\* CredentialsValidator.get_user_scopes(client_id=, username=); "" is None
GetUserScopes(client_id, username) ==
    IF client_id # "" /\ client_id \in DOMAIN MOCK_CLIENTS
    THEN MOCK_CLIENTS[client_id].scopes
    ELSE IF username # "" /\ username \in DOMAIN MOCK_USERS
    THEN << "read", "write" >>
    ELSE << "read" >>

\* seed_initial_data: the rows of the users table
SeededUsers ==
    [jdoe |-> [active |-> TRUE], agonzalez |-> [active |-> TRUE],
     mrios |-> [active |-> FALSE]]

\* _check_user_active_status(username): find_by_username returns a UserModel
\* or None; a UserModel has no method get, so user.get raises AttributeError.
\* Whatever is raised inside the try, UserInactiveError included, is caught
\* by except Exception and logged.  The result is what leaves the method.
CheckUserActiveStatus(username, table) ==
    [exc |-> NoExc,
     logged |-> IF username \in DOMAIN table THEN "AttributeError" ELSE NoExc]

Range(q) == { q[i] : i \in 1..Len(q) }

\* list(a_set): the elements in some order
ListsOf(S) == { q \in [1..Cardinality(S) -> S] : Range(q) = S }

\* _generate_user_claims(user_data, requested_scope, available_scopes), the
\* list of the intersection being final_scopes
GenerateUserClaims(user_data, final_scopes) ==
    [sub |-> user_data.sub,
     scope |-> IF final_scopes = << >> THEN << "read" >> ELSE final_scopes,
     groups |-> user_data.groups, dept |-> user_data.dept,
     riskScore |-> user_data.riskScore]

\* TokenResponse(access_token=token, expires_in=..., scope=" ".join(scopes))
TokenResponse(token, scopes) ==
    [access_token |-> token, token_type |-> "Bearer",
     expires_in |-> Settings.jwt_expiration_minutes * 60, scope |-> scopes]

\* nothing has been asked of authenticate_and_generate_token
NotGranted ==
    [done |-> FALSE, exc |-> NoExc, logged |-> NoExc,
     request |-> [grant_type |-> "", client_id |-> "", client_secret |-> "",
                  username |-> "", password |-> "", scope |-> << >>],
     response |-> TokenResponse(JwtEncode(<< >>, ""), << >>)]

----------------------------------------------------------------------------
(* AuthMiddleware.  A path is the sequence of its characters; an             *)
(* Authorization header is the sequence of its characters up to the token,   *)
(* followed by the token.                                                    *)

\* s.startswith(prefix)
StartsWith(s, prefix) ==
    Len(prefix) <= Len(s) /\ SubSeq(s, 1, Len(prefix)) = prefix

\* AuthMiddleware.EXCLUDED_PATHS
EXCLUDED_PATHS ==
    { << "/" >>,
      << "/", "d", "o", "c", "s" >>,
      << "/", "o", "p", "e", "n", "a", "p", "i", ".", "j", "s", "o", "n" >>,
      << "/", "h", "e", "a", "l", "t", "h" >>,
      << "/", "c", "o", "n", "f", "i", "g" >>,
      << "/", "a", "u", "t", "h", "/", "t", "o", "k", "e", "n" >> }

\* _is_excluded_path(path)
IsExcludedPath(path) ==
    \/ path \in EXCLUDED_PATHS
    \/ \E prefix \in { << "/", "d", "o", "c", "s" >>, << "/", "o", "p", "e", "n", "a", "p", "i" >> } : StartsWith(path, prefix)

\* the literal "Bearer "
BEARER == << "B", "e", "a", "r", "e", "r", " " >>

\* _extract_and_validate_token(request) at time t: the claims, None when the
\* header is missing, or the HTTPException raised
ExtractAndValidateToken(headers, t) ==
    IF ~ headers.has_authorization
    THEN [status |-> 0, has_claims |-> FALSE, claims |-> << >>]
    ELSE IF ~ StartsWith(headers.authorization, BEARER)
    THEN [status |-> 401, has_claims |-> FALSE, claims |-> << >>]
    ELSE IF Len(headers.authorization) # Len(BEARER) + 1
    THEN [status |-> 401, has_claims |-> FALSE, claims |-> << >>]
    ELSE LET r == ValidateTokenAndGetClaims(headers.authorization[Len(BEARER) + 1], t)
         IN IF r.exc # NoExc
            THEN [status |-> 401, has_claims |-> FALSE, claims |-> << >>]
            ELSE [status |-> 0, has_claims |-> TRUE, claims |-> r.claims]

\* dispatch(request, call_next) after _extract_and_validate_token: whether
\* call_next is reached, the HTTPException that leaves dispatch, and
\* request.state
Dispatched(path, extracted, auto_error) ==
    IF IsExcludedPath(path)
    THEN [forwarded |-> TRUE, status |-> 0, authenticated |-> "unset",
          user_claims |-> << >>]
    ELSE IF extracted.status # 0 /\ auto_error
    THEN [forwarded |-> FALSE, status |-> extracted.status,
          authenticated |-> "unset", user_claims |-> << >>]
    ELSE IF extracted.status # 0
    THEN [forwarded |-> TRUE, status |-> 0, authenticated |-> "false",
          user_claims |-> << >>]
    ELSE [forwarded |-> TRUE, status |-> 0,
          authenticated |-> IF extracted.has_claims THEN "true" ELSE "false",
          user_claims |-> extracted.claims]

\* no request has passed the middleware
NoRequest ==
    [done |-> FALSE, path |-> << >>, auto_error |-> FALSE,
     has_authorization |-> FALSE, token_ok |-> FALSE, forwarded |-> FALSE,
     status |-> 0,
     authenticated |-> "unset", user_claims |-> << >>]

\* no token has been issued, none has been validated
NoToken == [held |-> FALSE, token |-> JwtEncode(<< >>, ""), payload |-> << >>,
            expires_in_minutes |-> 0, time |-> 0]
NotVerified ==
    [done |-> FALSE, exc |-> NoExc, payload |-> << >>, time |-> 0,
     raised |-> NoExc, claims |-> << >>]

----------------------------------------------------------------------------
(* State *)

Repo == [_policies |-> _policies, _policy_set |-> _policy_set,
         _last_modified |-> _last_modified]

File == [exists |-> file_exists, mtime |-> file_mtime, content |-> file_content]

\* PolicyRepository.__init__ before the first load
FreshRepo ==
    [_policies |-> << >>,
     _policy_set |-> [is_none |-> TRUE, version |-> "", description |-> ""],
     _last_modified |-> NoneTime]

NoResult == [valid |-> FALSE, errors |-> << >>, policies_count |-> 0]
NoEval == [seen |-> FALSE, time |-> 0, response |-> NoResponse]
EmptyDoc == Document("1.0", << >>)

Call(op, request, correlation_id, response, from_cache, exc, raised, policies, reloaded, result, prev, entry) ==
    [op |-> op, request |-> request, correlation_id |-> correlation_id,
     response |-> response, from_cache |-> from_cache, exc |-> exc,
     raised |-> raised, policies |-> policies, reloaded |-> reloaded,
     result |-> result, prev |-> prev, entry |-> entry,
     time |-> now, file |-> File, repo |-> Repo,
     cache_size |-> Cardinality(DOMAIN _decision_cache)]

\* no call has returned since the environment last moved
NoCall ==
    [op |-> "none", request |-> ReqHR, correlation_id |-> "",
     response |-> NoResponse, from_cache |-> FALSE, exc |-> NoExc,
     raised |-> FALSE, policies |-> << >>, reloaded |-> FALSE,
     result |-> NoResult, prev |-> NoEval,
     entry |-> EntryOf(EmptyCache, << >>), time |-> 0,
     file |-> [exists |-> FALSE, mtime |-> 0, content |-> NotJson],
     repo |-> FreshRepo, cache_size |-> 0]

\* no thread is inside reload_policies
LoaderIdle == [pc |-> "idle", policy_data |-> NotJson, policies |-> << >>]

\* what a read of the repository returns; get_all_policies fills policies,
\* get_policy_by_id found and policy, get_policy_set_metadata the rest
NoRead ==
    [exc |-> NoExc, policies |-> << >>, found |-> FALSE, policy |-> << >>,
     version |-> "", description |-> "", policies_count |-> 0,
     last_modified |-> NoneTime, effects_distribution |-> << 0, 0, 0 >>]

\* no thread is inside a read of the repository
ReaderIdle == [op |-> "none", pc |-> "idle", rule_id |-> "", ret |-> NoRead]

\* The documents a first load accepts: construction of the repository (and
\* so of the service) succeeds on these and on a missing file.
InitDocs == { d \in DeployedDocs : d.json_ok /\ ValidatePolicySet(d).valid }

\* the threads that serve calls on the one service
Workers == { 1, 2 }

\* a thread that is in no call
WorkerIdle ==
    [pc |-> "idle", op |-> "none", request |-> ReqHR, correlation_id |-> "",
     entry |-> [response |-> NoResponse, timestamp |-> 0],
     response |-> NoResponse, from_cache |-> FALSE, exc |-> NoExc,
     audits |-> << >>, policies |-> << >>, cleared |-> FALSE]

\* the objects built at import time
InitMore ==
    /\ manager = DefaultManager
    /\ other_cache = EmptyCache
    /\ workers = [w \in Workers |-> WorkerIdle]
    /\ origin = EmptyCache

InitWith(docs) ==
    /\ now = 0
    /\ ticks = 0
    /\ writes = 0
    /\ calls = 0
    /\ file_mtime = 0
    /\ \/ /\ file_exists = TRUE
          /\ file_content \in docs
          /\ loaded_doc = file_content
       \/ /\ file_exists = FALSE
          /\ file_content = NotJson
          /\ loaded_doc = EmptyDoc
    /\ \E loaded \in { LoadPolicies(FreshRepo,
                                      [exists |-> file_exists, mtime |-> file_mtime,
                                       content |-> file_content]) } :
          /\ _policies = loaded.repo._policies
          /\ _policy_set = loaded.repo._policy_set
          /\ _last_modified = loaded.repo._last_modified
          /\ complete = { loaded.repo }
    /\ loader = LoaderIdle
    /\ reader = ReaderIdle
    /\ issued = NoToken
    /\ verified = NotVerified
    /\ users = SeededUsers
    /\ granted = NotGranted
    /\ gate = NoRequest
    /\ _decision_cache = EmptyCache
    /\ hist = [r \in Requests |-> NoEval]
    /\ last = NoCall

Init ==
    /\ InitWith(InitDocs)
    /\ InitMore

----------------------------------------------------------------------------
(* Environment *)

\* the clock advances; the steps let an entry's age be 1, CACHE_TTL and
\* CACHE_TTL + 1
Tick(d) ==
    /\ ticks < MaxTicks
    /\ ticks' = ticks + 1
    /\ now' = now + d
    /\ last' = NoCall
    /\ UNCHANGED << file_exists, file_mtime, file_content, writes, calls, _policies,
                    _policy_set, _last_modified, _decision_cache, loaded_doc,
                    hist >>
    /\ UNCHANGED threads
    /\ UNCHANGED auth
    /\ UNCHANGED more

\* a writer replaces the policy file; its mtime becomes strictly newer
WriteFile(doc) ==
    /\ writes < MaxWrites
    /\ now > file_mtime
    /\ writes' = writes + 1
    /\ file_exists' = TRUE
    /\ file_content' = doc
    /\ file_mtime' = now
    /\ hist' = [r \in Requests |-> NoEval]
    /\ last' = NoCall
    /\ UNCHANGED << now, ticks, calls, _policies, _policy_set, _last_modified,
                    _decision_cache, loaded_doc >>
    /\ UNCHANGED threads
    /\ UNCHANGED auth
    /\ UNCHANGED more

----------------------------------------------------------------------------
(* Operations *)

\* one more call is served
Served ==
    /\ calls < MaxCalls
    /\ calls' = calls + 1

SetRepo(repo) ==
    /\ _policies' = repo._policies
    /\ _policy_set' = repo._policy_set
    /\ _last_modified' = repo._last_modified

\* AuthzService.evaluate_authorization(request, correlation_id)
Evaluate(request, correlation_id, generated) ==
    \E cid \in { IF correlation_id # "" THEN correlation_id ELSE generated } :
    \E r \in { EvaluateAuthorization(request, cid, _decision_cache, Repo, File,
                                     now) } :
       /\ Served
       /\ _decision_cache' = r.cache
       /\ SetRepo(r.repo)
       /\ loaded_doc' = IF r.reloaded /\ r.exc = NoExc THEN file_content
                        ELSE loaded_doc
       /\ hist' = [q \in Requests |->
                      IF q = request
                      THEN [seen |-> TRUE, time |-> now, response |-> r.response]
                      ELSE IF r.reloaded THEN NoEval ELSE hist[q]]
       /\ last' = Call("evaluate", request, cid, r.response, r.from_cache,
                       r.exc, r.raised, r.policies, r.reloaded, NoResult,
                       hist[request],
                       EntryOf(_decision_cache, GenerateCacheKey(request)))
       /\ UNCHANGED << now, ticks, file_exists, file_mtime, file_content, writes >>
       /\ UNCHANGED threads
       /\ UNCHANGED auth
       /\ UNCHANGED more

\* AuthzService.reload_policies()
ReloadPolicies ==
    \E cleared \in { ClearCache(_decision_cache) } :
    \E r \in { RepoReloadPolicies(Repo, File) } :
       /\ Served
       /\ _decision_cache' = cleared
       /\ SetRepo(r.repo)
       /\ loaded_doc' = IF ~ r.result.valid THEN loaded_doc
                        ELSE IF file_exists THEN file_content ELSE EmptyDoc
       /\ hist' = [q \in Requests |-> NoEval]
       /\ last' = Call("reload", ReqHR, "", NoResponse, FALSE,
                       IF r.result.valid THEN NoExc ELSE r.result.errors[1],
                       FALSE, << >>, TRUE, r.result, NoEval,
                       EntryOf(EmptyCache, << >>))
       /\ UNCHANGED << now, ticks, file_exists, file_mtime, file_content, writes >>
       /\ UNCHANGED threads
       /\ UNCHANGED auth
       /\ UNCHANGED more

TickDeltas == { 1, CACHE_TTL }

\* The service, its clock and its policy file, with calls whose correlation
\* ids are drawn from ids.
Step(ids) ==
    \/ \E d \in TickDeltas : Tick(d)
    \/ \E doc \in FileDocs : WriteFile(doc)
    \/ \E request \in Requests, correlation_id \in ids,
          generated \in GeneratedIds :
           Evaluate(request, correlation_id, generated)
    \/ ReloadPolicies

Next == Step(ClientIds)

Spec == Init /\ [][Next]_vars

\* The same service called by clients that send different correlation ids, or
\* none.
NextIds == Step(CorrelationIds)

SpecIds == Init /\ [][NextIds]_vars

\* The service over every document of WideDocs: the file is loaded at
\* construction and requests are evaluated against it.
InitWide ==
    /\ InitWith(WideDocs)
    /\ InitMore

NextWide ==
    \E request \in Requests, correlation_id \in CorrelationIds,
       generated \in GeneratedIds :
        Evaluate(request, correlation_id, generated)

SpecWide == InitWide /\ [][NextWide]_vars

\* The k-th of a series of pairwise distinct requests: they differ in the
\* action, which is part of the cache key.
NumberedRequest(k) == [ReqRisk EXCEPT !.action = PyStr(ToString(k))]

\* what a call returns, with the request it was made on
Returned(request, r) == [request |-> request, r |-> r]

\* n calls of evaluate_authorization, one after the other, on the requests
\* numbered k, k + 1, ...; prev is what the call before them returned
RECURSIVE EvaluateSeries(_, _, _, _, _)
EvaluateSeries(k, n, prev, file, t) ==
    IF n = 0 THEN prev
    ELSE CHOOSE out \in
             { EvaluateSeries(k + 1, n - 1, Returned(NumberedRequest(k), r), file, t) :
                 r \in { EvaluateAuthorization(NumberedRequest(k), "c1",
                                               prev.r.cache, prev.r.repo, file, t) } } :
             TRUE

\* a client sends a burst of n requests never seen before
BurstSizes == { 10, 50 }

EvaluateDistinct(n) ==
    /\ calls + n <= MaxDistinct
    /\ \E before \in { [cache |-> _decision_cache, repo |-> Repo] } :
       \E out \in { EvaluateSeries(calls, n, Returned(ReqRisk, before), File, now) } :
          /\ calls' = calls + n
          /\ _decision_cache' = out.r.cache
          /\ SetRepo(out.r.repo)
          /\ last' = Call("evaluate", out.request, "c1", out.r.response,
                          out.r.from_cache, out.r.exc, out.r.raised,
                          out.r.policies, out.r.reloaded, NoResult, NoEval,
                          EntryOf(_decision_cache, GenerateCacheKey(out.request)))
    /\ UNCHANGED << now, ticks, file_exists, file_mtime, file_content, writes,
                    loaded_doc, hist >>
    /\ UNCHANGED threads
    /\ UNCHANGED auth
    /\ UNCHANGED more

NextDistinct == \E n \in BurstSizes : EvaluateDistinct(n)

\* One service that is asked a new request each time, within one second.
SpecDistinct == Init /\ [][NextDistinct]_vars

----------------------------------------------------------------------------
(* POST /authz/policies/reload.  get_authz_service hands the handler an      *)
(* AuthzService of its own, whose cache is empty and is dropped with it; the *)
(* repository is the one of every service.                                   *)

\* a variant that reloads first and looks at the groups afterwards
ReloadHandledUnchecked(groups, repo, file) ==
    IF "ADMINS" \notin { groups[i] : i \in 1..Len(groups) }
    THEN [status |-> 403, reloaded |-> TRUE,
          repo |-> RepoReloadPolicies(repo, file).repo, result |-> NoResult]
    ELSE [status |-> 200, reloaded |-> TRUE,
          repo |-> RepoReloadPolicies(repo, file).repo,
          result |-> RepoReloadPolicies(repo, file).result]

\* the handler reload_policies for a caller with these groups: the status of
\* the answer and the repository after it
ReloadHandled(groups, repo, file) ==
    IF "ADMINS" \notin { groups[i] : i \in 1..Len(groups) }
    THEN [status |-> 403, reloaded |-> FALSE, repo |-> repo, result |-> NoResult]
    ELSE [status |-> 200, reloaded |-> TRUE,
          repo |-> RepoReloadPolicies(repo, file).repo,
          result |-> RepoReloadPolicies(repo, file).result]

\* the groups in the verified claims of the callers
CallerGroups == { << "HR_READERS" >>, << "ADMINS" >>, << >> }

HandleReload(groups) ==
    \E r \in { ReloadHandled(groups, Repo, File) } :
       /\ Served
       /\ SetRepo(r.repo)
       /\ loaded_doc' = IF ~ r.reloaded \/ ~ r.result.valid THEN loaded_doc
                        ELSE IF file_exists THEN file_content ELSE EmptyDoc
       /\ hist' = IF r.reloaded THEN [q \in Requests |-> NoEval] ELSE hist
       /\ last' = [op |-> "reload_handler", groups |-> groups, status |-> r.status,
                   reloaded |-> r.reloaded, result |-> r.result, repo |-> Repo,
                   file |-> File, cache |-> _decision_cache]
       /\ UNCHANGED << now, ticks, file_exists, file_mtime, file_content, writes,
                       _decision_cache >>
       /\ UNCHANGED threads
       /\ UNCHANGED auth
       /\ UNCHANGED more

NextAdmin ==
    \/ \E d \in TickDeltas : Tick(d)
    \/ \E doc \in FileDocs : WriteFile(doc)
    \/ \E request \in Requests, correlation_id \in ClientIds,
          generated \in GeneratedIds :
           Evaluate(request, correlation_id, generated)
    \/ \E groups \in CallerGroups : HandleReload(groups)

\* The service and the reload endpoint, called by admins and by others.
SpecAdmin == Init /\ [][NextAdmin]_vars

----------------------------------------------------------------------------
(* PolicyRepository called from several threads.  One thread is inside       *)
(* reload_policies, another inside a read; a thread switch can fall between  *)
(* any two statements, and the repository takes no lock.                     *)

\* ABACPolicySet(**policy_data).policies: the policies in file order
ParsedPolicies(policy_data) ==
    [i \in 1..Len(policy_data.policies) |-> ABACPolicy(policy_data.policies[i])]

\* the repository a load of policy_data leaves when it runs alone and finds
\* the file's mtime to be mtime
LoadedAlone(policy_data, mtime) ==
    [_policies |-> SortPolicies(ParsedPolicies(policy_data)),
     _policy_set |-> [is_none |-> FALSE, version |-> policy_data.version,
                      description |-> policy_data.description],
     _last_modified |-> FromTimestamp(mtime)]

\* reload_policies enters _load_policies: the file is looked up, read, parsed
\* and validated.  A missing file empties _policies; a file that does not
\* load raises, and reload_policies returns valid=False.
ReloadBegin ==
    /\ loader.pc = "idle"
    /\ Served
    /\ IF ~ file_exists
       THEN /\ _policies' = << >>
            /\ loader' = [LoaderIdle EXCEPT !.pc = "missing"]
            /\ complete' = complete \cup { LoadPolicies(Repo, File).repo }
       ELSE IF LoadPolicies(Repo, File).exc # NoExc
       THEN UNCHANGED << _policies, loader, complete >>
       ELSE /\ loader' = [LoaderIdle EXCEPT !.pc = "validated",
                                            !.policy_data = file_content]
            /\ complete' = complete \cup { LoadedAlone(file_content, file_mtime) }
            /\ UNCHANGED _policies
    /\ UNCHANGED << now, ticks, file_exists, file_mtime, file_content, writes,
                    _policy_set, _last_modified, _decision_cache, loaded_doc,
                    hist, last, reader >>
    /\ UNCHANGED auth
    /\ UNCHANGED more

\* self._policy_set = ABACPolicySet(policies=[], version="1.0"); return
LoadMissingSet ==
    /\ loader.pc = "missing"
    /\ _policy_set' = [is_none |-> FALSE, version |-> "1.0", description |-> ""]
    /\ loader' = LoaderIdle
    /\ loaded_doc' = EmptyDoc
    /\ UNCHANGED << now, ticks, file_exists, file_mtime, file_content, writes,
                    calls, _policies, _last_modified, _decision_cache, hist,
                    last, reader, complete >>
    /\ UNCHANGED auth
    /\ UNCHANGED more

\* self._policy_set = ABACPolicySet(**policy_data)
LoadPolicySet ==
    /\ loader.pc = "validated"
    /\ _policy_set' = [is_none |-> FALSE, version |-> loader.policy_data.version,
                       description |-> loader.policy_data.description]
    /\ loader' = [loader EXCEPT !.pc = "set",
                                !.policies = ParsedPolicies(loader.policy_data)]
    /\ UNCHANGED << now, ticks, file_exists, file_mtime, file_content, writes,
                    calls, _policies, _last_modified, _decision_cache,
                    loaded_doc, hist, last, reader, complete >>
    /\ UNCHANGED auth
    /\ UNCHANGED more

\* self._policies = self._policy_set.policies
LoadAssign ==
    /\ loader.pc = "set"
    /\ _policies' = loader.policies
    /\ loader' = [loader EXCEPT !.pc = "assigned"]
    /\ UNCHANGED << now, ticks, file_exists, file_mtime, file_content, writes,
                    calls, _policy_set, _last_modified, _decision_cache,
                    loaded_doc, hist, last, reader, complete >>
    /\ UNCHANGED auth
    /\ UNCHANGED more

\* self._policies.sort(key=lambda p: p.priority or 100): the list that
\* _policies names at this moment is sorted in place
LoadSort ==
    /\ loader.pc = "assigned"
    /\ _policies' = SortPolicies(_policies)
    /\ loader' = [loader EXCEPT !.pc = "sorted"]
    /\ UNCHANGED << now, ticks, file_exists, file_mtime, file_content, writes,
                    calls, _policy_set, _last_modified, _decision_cache,
                    loaded_doc, hist, last, reader, complete >>
    /\ UNCHANGED auth
    /\ UNCHANGED more

\* self._last_modified = datetime.fromtimestamp(policies_path.stat().st_mtime);
\* _load_policies and reload_policies return
LoadMtime ==
    /\ loader.pc = "sorted"
    /\ _last_modified' = FromTimestamp(file_mtime)
    /\ loader' = LoaderIdle
    /\ loaded_doc' = loader.policy_data
    /\ complete' = complete \cup { LoadedAlone(loader.policy_data, file_mtime) }
    /\ UNCHANGED << now, ticks, file_exists, file_mtime, file_content, writes,
                    calls, _policies, _policy_set, _decision_cache, hist, last,
                    reader >>
    /\ UNCHANGED auth
    /\ UNCHANGED more

ReadOps == { "get_all_policies", "get_policy_by_id", "get_policy_set_metadata" }
ReadRuleIds == { "HR-PERMIT-01", "HR-DENY-01" }

\* a read enters get_all_policies: if self._should_reload():
\* self._load_policies().  The exception of the hot reload leaves the read.
ReadBegin(op, rule_id) ==
    /\ reader.pc = "idle"
    /\ Served
    /\ \E got \in { GetAllPolicies(Repo, File) } :
          /\ SetRepo(got.repo)
          /\ loaded_doc' = IF got.reloaded /\ got.exc = NoExc THEN file_content
                           ELSE loaded_doc
          /\ complete' = complete \cup { got.repo }
          /\ reader' = [op |-> op,
                        pc |-> IF got.exc = NoExc THEN "checked" ELSE "returned",
                        rule_id |-> rule_id,
                        ret |-> [NoRead EXCEPT !.exc = got.exc]]
    /\ UNCHANGED << now, ticks, file_exists, file_mtime, file_content, writes,
                    _decision_cache, hist, last, loader >>
    /\ UNCHANGED auth
    /\ UNCHANGED more

\* for policy in policies: if policy.ruleId == rule_id: return policy
RECURSIVE FindPolicy(_, _)
FindPolicy(policies, rule_id) ==
    IF policies = << >> THEN [found |-> FALSE, policy |-> << >>]
    ELSE IF Head(policies).ruleId = rule_id
    THEN [found |-> TRUE, policy |-> << Head(policies) >>]
    ELSE FindPolicy(Tail(policies), rule_id)

\* return self._policies.copy(); get_policy_by_id searches the copy,
\* get_policy_set_metadata drops it
ReadCopy ==
    /\ reader.pc = "checked"
    /\ reader' =
          IF reader.op = "get_all_policies"
          THEN [reader EXCEPT !.pc = "returned", !.ret.policies = _policies]
          ELSE IF reader.op = "get_policy_by_id"
          THEN [reader EXCEPT !.pc = "returned",
                              !.ret.found = FindPolicy(_policies, reader.rule_id).found,
                              !.ret.policy = FindPolicy(_policies, reader.rule_id).policy]
          ELSE [reader EXCEPT !.pc = "version"]
    /\ UNCHANGED << now, ticks, file_exists, file_mtime, file_content, writes,
                    calls, _policies, _policy_set, _last_modified,
                    _decision_cache, loaded_doc, hist, last, loader, complete >>
    /\ UNCHANGED auth
    /\ UNCHANGED more

\* datetime.isoformat(), or None
IsoFormat(d) == IF d = NoneTime THEN "None" ELSE ToString(d)

\* _get_effects_distribution: the numbers of Permit, Deny and Challenge
EffectsDistribution(policies) ==
    << Cardinality({ i \in 1..Len(policies) : policies[i].effect = "Permit" }),
       Cardinality({ i \in 1..Len(policies) : policies[i].effect = "Deny" }),
       Cardinality({ i \in 1..Len(policies) : policies[i].effect = "Challenge" }) >>

\* the entries of the dictionary get_policy_set_metadata builds, in the
\* order it evaluates them
MetadataFields ==
    << "version", "description", "policies_count", "last_modified",
       "effects_distribution" >>

\* the value of one entry, read from the repository as it is now
MetadataValue(field, repo) ==
    CASE field = "version" ->
           IF repo._policy_set.is_none THEN "unknown" ELSE repo._policy_set.version
      [] field = "description" ->
           IF repo._policy_set.is_none THEN "" ELSE repo._policy_set.description
      [] field = "policies_count" -> Len(repo._policies)
      [] field = "last_modified" -> IsoFormat(repo._last_modified)
      [] field = "effects_distribution" -> EffectsDistribution(repo._policies)

\* get_policy_set_metadata evaluates the next entry of its dictionary
ReadField ==
    /\ reader.pc \in { MetadataFields[i] : i \in 1..Len(MetadataFields) }
    /\ \E i \in 1..Len(MetadataFields) :
          /\ reader.pc = MetadataFields[i]
          /\ reader' = [reader EXCEPT
                           !.pc = IF i = Len(MetadataFields) THEN "returned"
                                  ELSE MetadataFields[i + 1],
                           !.ret[MetadataFields[i]] =
                               MetadataValue(MetadataFields[i], Repo)]
    /\ UNCHANGED << now, ticks, file_exists, file_mtime, file_content, writes,
                    calls, _policies, _policy_set, _last_modified,
                    _decision_cache, loaded_doc, hist, last, loader, complete >>
    /\ UNCHANGED auth
    /\ UNCHANGED more

\* the caller has taken what the read returned
ReadReturn ==
    /\ reader.pc = "returned"
    /\ reader' = ReaderIdle
    /\ UNCHANGED << now, ticks, file_exists, file_mtime, file_content, writes,
                    calls, _policies, _policy_set, _last_modified,
                    _decision_cache, loaded_doc, hist, last, loader, complete >>
    /\ UNCHANGED auth
    /\ UNCHANGED more

NextReaders ==
    \/ \E d \in TickDeltas : Tick(d)
    \/ \E doc \in FileDocs : WriteFile(doc)
    \/ ReloadBegin
    \/ LoadMissingSet
    \/ LoadPolicySet
    \/ LoadAssign
    \/ LoadSort
    \/ LoadMtime
    \/ \E op \in ReadOps, rule_id \in ReadRuleIds : ReadBegin(op, rule_id)
    \/ ReadCopy
    \/ ReadField
    \/ ReadReturn

\* One repository, its file and its clock, with a reload and a read that
\* run in two threads.
SpecReaders == Init /\ [][NextReaders]_vars

----------------------------------------------------------------------------
(* Tokens: a client obtains a token from generate_token and presents it to   *)
(* validate_token at some later, or earlier, reading of the wall clock.      *)

\* the claims of the mock user jdoe, and the same with an issuer or an
\* audience of the payload's own
UserPayload ==
    [sub |-> "jdoe", scope |-> "read", groups |-> << "HR_READERS" >>,
     dept |-> "HR", riskScore |-> 20]
TokenPayloads ==
    { UserPayload, DictMerge(UserPayload, [iss |-> "other-issuer"]),
      DictMerge(UserPayload, [aud |-> "other-api"]) }

\* lifetimes asked of generate_token, in minutes
TokenMinutes == { 1, Settings.jwt_expiration_minutes }

\* readings of the wall clock, in seconds
ClockTimes == { 0, 30, 59, 60, 61, 90, 3600, 3601 }

\* datetime.now(timezone.utc) reads t
ClockReads(t) ==
    /\ now' = t
    /\ UNCHANGED authz
    /\ UNCHANGED auth
    /\ UNCHANGED more

\* JWTManager.generate_token(payload, expires_in_minutes)
Issue(payload, expires_in_minutes) ==
    /\ issued' = [held |-> TRUE,
                  token |-> GenerateToken(payload, expires_in_minutes, now),
                  payload |-> payload,
                  expires_in_minutes |-> expires_in_minutes, time |-> now]
    /\ verified' = NotVerified
    /\ UNCHANGED << now, users, granted, gate >>
    /\ UNCHANGED authz
    /\ UNCHANGED more

\* AuthService.validate_token_and_get_claims(token), which calls
\* JWTManager.validate_token(token): exc is what validate_token raised,
\* raised what the service raised
Validate ==
    /\ issued.held
    /\ \E r \in { ValidateTokenAndGetClaims(issued.token, now) } :
          verified' = [done |-> TRUE, exc |-> r.jwt_exc, payload |-> r.payload,
                       time |-> now, raised |-> r.exc, claims |-> r.claims]
    /\ UNCHANGED << now, issued, users, granted, gate >>
    /\ UNCHANGED authz
    /\ UNCHANGED more

----------------------------------------------------------------------------
(* POST /auth/token: clients and users ask for tokens while the SCIM store   *)
(* activates and deactivates users.                                          *)

ClientRequest(client_id, client_secret, scope) ==
    [grant_type |-> "client_credentials", client_id |-> client_id,
     client_secret |-> client_secret, username |-> "", password |-> "",
     scope |-> scope]
PasswordRequest(username, password, scope) ==
    [grant_type |-> "password", client_id |-> "", client_secret |-> "",
     username |-> username, password |-> password, scope |-> scope]

TokenRequests ==
    { ClientRequest("test_client", "test_secret", << "read" >>),
      ClientRequest("hr_app", "hr_secret_2024", << "hr:payroll", "admin" >>),
      ClientRequest("hr_app", "wrong", << "read" >>),
      PasswordRequest("jdoe", "password123", << "read" >>),
      PasswordRequest("jdoe", "password123", << "admin" >>),
      PasswordRequest("mrios", "admin_pass", << "read", "write" >>),
      PasswordRequest("mrios", "wrong", << >>) }

\* SCIM update of a user: the active column of its row is set
SetActive(username, active) ==
    /\ users' = [users EXCEPT ![username].active = active]
    /\ UNCHANGED << now, issued, verified, granted, gate >>
    /\ UNCHANGED authz
    /\ UNCHANGED more

\* the credentials of the request, looked up
UserDataOf(request) ==
    IF request.grant_type = "client_credentials"
    THEN ValidateClientCredentials(request.client_id, request.client_secret)
    ELSE ValidateUserPassword(request.username, request.password)

\* AuthService.authenticate_and_generate_token(request)
Authenticate(request) ==
    \E user_data \in { UserDataOf(request) } :
    \E scopes \in { GetUserScopes(request.client_id, request.username) } :
    \E checked \in { IF request.grant_type = "password"
                     THEN CheckUserActiveStatus(request.username, users)
                     ELSE [exc |-> NoExc, logged |-> NoExc] } :
    \E final_scopes \in ListsOf(Range(IF request.scope = << >> THEN << "read" >>
                                      ELSE request.scope) \cap Range(scopes)) :
       /\ IF checked.exc # NoExc
          THEN /\ granted' = [NotGranted EXCEPT !.done = TRUE, !.exc = checked.exc,
                                                !.request = request]
               /\ UNCHANGED issued
          ELSE IF ~ user_data.found
          THEN /\ granted' = [NotGranted EXCEPT !.done = TRUE,
                                                !.exc = "InvalidCredentialsError",
                                                !.logged = checked.logged,
                                                !.request = request]
               /\ UNCHANGED issued
          ELSE /\ issued' =
                    [held |-> TRUE,
                     token |-> GenerateToken(GenerateUserClaims(user_data.data, final_scopes),
                                             Settings.jwt_expiration_minutes, now),
                     payload |-> GenerateUserClaims(user_data.data, final_scopes),
                     expires_in_minutes |-> Settings.jwt_expiration_minutes,
                     time |-> now]
               /\ granted' = [done |-> TRUE, exc |-> NoExc, logged |-> checked.logged,
                              request |-> request,
                              response |-> TokenResponse(issued'.token, scopes)]
       /\ verified' = NotVerified
       /\ UNCHANGED << now, users, gate >>
       /\ UNCHANGED authz
       /\ UNCHANGED more

NextAuth ==
    \/ \E username \in DOMAIN SeededUsers, active \in BOOLEAN :
           SetActive(username, active)
    \/ \E request \in TokenRequests : Authenticate(request)
    \/ Validate

\* One AuthService with the mock credentials and the SCIM users table.
SpecAuth == Init /\ [][NextAuth]_vars

----------------------------------------------------------------------------
(* Requests through AuthMiddleware: a client presents the token it holds,    *)
(* or a forged one, under some Authorization header.                         *)

\* the paths of the requests: /health, /docs/x and /auth/me
HttpPaths ==
    { << "/", "h", "e", "a", "l", "t", "h" >>,
      << "/", "d", "o", "c", "s", "/", "x" >>,
      << "/", "a", "u", "t", "h", "/", "m", "e" >> }

\* the readings of the clock around the exp of a token of one minute
GateTimes == { 0, 59, 60 }

\* the token in hand, and its payload signed with a key of the client's own
ForgedToken == [issued.token EXCEPT !.signed_with = "forged"]

\* the headers of a request: no Authorization header, or a token after one of
\* "Bearer ", "bearer " and "Basic "
Schemes ==
    { << >>, BEARER, << "b", "e", "a", "r", "e", "r", " " >>,
      << "B", "a", "s", "i", "c", " " >> }
Headers(scheme, token) ==
    IF scheme = << >> THEN [has_authorization |-> FALSE, authorization |-> << >>]
    ELSE [has_authorization |-> TRUE, authorization |-> scheme \o << token >>]

\* AuthMiddleware(app, auto_error).dispatch(request, call_next)
Dispatch(path, headers, auto_error) ==
    /\ issued.held
    /\ \E d \in { Dispatched(path, ExtractAndValidateToken(headers, now), auto_error) } :
          gate' = [done |-> TRUE, path |-> path, auto_error |-> auto_error,
                   has_authorization |-> headers.has_authorization,
                   token_ok |-> ExtractAndValidateToken(headers, now).has_claims,
                   forwarded |-> d.forwarded, status |-> d.status,
                   authenticated |-> d.authenticated,
                   user_claims |-> d.user_claims]
    /\ UNCHANGED << now, issued, verified, users, granted >>
    /\ UNCHANGED authz
    /\ UNCHANGED more

NextGate ==
    \/ \E t \in GateTimes : ClockReads(t)
    \/ \E payload \in TokenPayloads : Issue(payload, 1)
    \/ \E path \in HttpPaths, scheme \in Schemes, forged, auto_error \in BOOLEAN :
           Dispatch(path, Headers(scheme, IF forged THEN ForgedToken
                                          ELSE issued.token), auto_error)

\* One AuthMiddleware in front of the handlers.
SpecGate == Init /\ [][NextGate]_vars

NextTokens ==
    \/ \E t \in ClockTimes : ClockReads(t)
    \/ \E payload \in TokenPayloads, expires_in_minutes \in TokenMinutes :
           Issue(payload, expires_in_minutes)
    \/ Validate

\* One JWTManager with the default settings and the wall clock.
SpecTokens == Init /\ [][NextTokens]_vars

----------------------------------------------------------------------------
(* Properties *)

Evaluated == last.op = "evaluate"
Reloaded == last.op = "reload"

\* some policy of the list with this effect applies to the request
Applies(policies, request, effect) ==
    \E i \in 1..Len(policies) :
        /\ policies[i].effect = effect
        /\ EvaluatePolicyConditions(policies[i].conditions, FlattenRequest(request))

\* the file the call found is a document that loads
FileLoads(file) ==
    /\ file.exists
    /\ file.content.json_ok
    /\ ValidatePolicySet(file.content).valid

\* the file the call found is there and does not load
FileBroken(file) ==
    /\ file.exists
    /\ ~ (file.content.json_ok /\ ValidatePolicySet(file.content).valid)

\* C1: the evaluator's decision over the list it got is Deny if a Deny policy
\* applies, else Challenge if a Challenge policy applies, else Permit if a
\* Permit policy applies, else Deny with the single reason "No applicable
\* policies found"; priorities play no part.
C1_Precedence ==
    (Evaluated /\ ~ last.from_cache /\ last.exc = NoExc) =>
        LET deny == Applies(last.policies, last.request, "Deny")
            challenge == Applies(last.policies, last.request, "Challenge")
            permit == Applies(last.policies, last.request, "Permit")
        IN /\ last.response.decision =
                  (IF deny THEN "Deny" ELSE IF challenge THEN "Challenge"
                   ELSE IF permit THEN "Permit" ELSE "Deny")
           /\ (~ deny /\ ~ challenge /\ ~ permit) =>
                  last.response.reasons = << << "No applicable policies found" >> >>

\* an applicable Deny of priority 100 has won over an applicable Permit of
\* priority 10
C1_Witness ==
    /\ Evaluated /\ ~ last.from_cache /\ last.exc = NoExc
    /\ last.response.decision = "Deny"
    /\ \E i, j \in 1..Len(last.policies) :
          /\ i < j
          /\ last.policies[i].effect = "Permit"
          /\ last.policies[j].effect = "Deny"
          /\ last.policies[i].priority < last.policies[j].priority
          /\ EvaluatePolicyConditions(last.policies[i].conditions,
                                      FlattenRequest(last.request))
          /\ EvaluatePolicyConditions(last.policies[j].conditions,
                                      FlattenRequest(last.request))

\* the decision the evaluator gives for a request over a list of policies
DecisionOver(policies, request) ==
    LET context == FlattenRequest(request)
    IN MakeDecision(MatchedReasons(policies, context, "Permit"),
                    MatchedReasons(policies, context, "Deny"),
                    MatchedReasons(policies, context, "Challenge"))

\* C2: when the file the call finds is strictly newer than the loaded set
\* and loads, Evaluate returns the decision of the new set, never a decision
\* cached under the superseded set.
C2_HotReloadReachesDecision ==
    (/\ Evaluated
     /\ FileLoads(last.file)
     /\ last.repo._last_modified # NoneTime
     /\ last.file.mtime > last.repo._last_modified) =>
        last.response.decision =
            DecisionOver(LoadPolicies(last.repo, last.file).repo._policies,
                         last.request).decision

\* C3: Evaluate never raises and returns one of the three decisions; when a
\* failure occurred inside the call the decision is Deny and the first reason
\* starts with "Evaluation error:".
C3_TotalFailSafe ==
    Evaluated =>
        /\ ~ last.raised
        /\ last.response.decision \in {"Permit", "Deny", "Challenge"}
        /\ last.exc # NoExc =>
              /\ last.response.decision = "Deny"
              /\ Len(last.response.reasons) = 1
              /\ last.response.reasons[1][1] = "Evaluation error"

\* a hot reload failed inside an Evaluate while the set loaded before would
\* have permitted the request
C3_Witness ==
    /\ Evaluated
    /\ last.exc # NoExc
    /\ last.response.decision = "Deny"
    /\ DecisionOver(last.repo._policies, last.request).decision = "Permit"

\* C4 as stated: a hit needs age < cacheTTL; an entry of age >= cacheTTL is a miss.
C4_HitOnlyBelowTTL ==
    (Evaluated /\ last.entry.present) =>
        (last.from_cache <=> last.time - last.entry.timestamp < CACHE_TTL)

\* C4, amended: a hit needs age <= cacheTTL; an entry of age > cacheTTL is a
\* miss and the request is evaluated against the repository.
C4_HitOnlyWithinTTL ==
    (Evaluated /\ last.entry.present) =>
        /\ last.from_cache <=> last.time - last.entry.timestamp <= CACHE_TTL
        /\ ~ last.from_cache /\ last.exc = NoExc =>
              last.response.decision =
                  DecisionOver(last.policies, last.request).decision

\* an entry exactly cacheTTL old has been served
C4_Witness ==
    /\ Evaluated
    /\ last.entry.present
    /\ last.time - last.entry.timestamp = CACHE_TTL
    /\ last.from_cache

\* C5: after AuthzService.reload_policies the decision cache is empty.
C5_CacheEmptyAfterReload ==
    Reloaded => DOMAIN _decision_cache = {}

\* a reload that reported valid=false found entries in the cache
C5_Witness ==
    /\ Reloaded
    /\ ~ last.result.valid
    /\ last.cache_size > 0
    /\ DOMAIN _decision_cache = {}

HasCorrelationId(response, correlation_id) ==
    \E i \in 1..Len(response.obligations) :
        response.obligations[i] = << "correlation_id", correlation_id >>

\* C6: a Deny or Challenge returned by Evaluate carries the correlation id of
\* the call that returns it, cache hit or not.
C6_OwnCorrelationId ==
    (Evaluated /\ last.response.decision \in {"Deny", "Challenge"}) =>
        HasCorrelationId(last.response, last.correlation_id)

RECURSIVE WithoutCorrelationId(_)
WithoutCorrelationId(obligations) ==
    IF obligations = << >> THEN << >>
    ELSE (IF Head(obligations)[1] = "correlation_id" THEN << >>
          ELSE << Head(obligations) >>)
         \o WithoutCorrelationId(Tail(obligations))

\* C7: an Evaluate of a request less than cacheTTL after the previous Evaluate
\* of that request, with no reload and no file change in between, returns the
\* same decision, reasons, advice and obligations (correlation id aside).
C7_RepeatedEvaluateEqual ==
    (Evaluated /\ last.prev.seen /\ last.time - last.prev.time < CACHE_TTL) =>
        /\ last.response.decision = last.prev.response.decision
        /\ last.response.reasons = last.prev.response.reasons
        /\ last.response.advice = last.prev.response.advice
        /\ WithoutCorrelationId(last.response.obligations)
               = WithoutCorrelationId(last.prev.response.obligations)

\* C8: a reload that finds a file that is not JSON or fails validation
\* reports valid=false and leaves the policy list, the set's metadata and the
\* recorded mtime as they were.
C8_FailedReloadKeepsState ==
    (Reloaded /\ FileBroken(last.file)) =>
        /\ ~ last.result.valid
        /\ _policies = last.repo._policies
        /\ _policy_set = last.repo._policy_set
        /\ _last_modified = last.repo._last_modified

\* a reload of a broken, newer file was refused while policies were loaded
C8_Witness ==
    /\ Reloaded
    /\ FileBroken(last.file)
    /\ last.file.mtime > last.repo._last_modified
    /\ ~ last.result.valid
    /\ last.repo._policies # << >>
    /\ _policies = last.repo._policies

\* C9: when the hot reload triggered inside get_all_policies fails, nothing is
\* raised and the request is decided by the set loaded before.
C9_FailedHotReloadKeepsDeciding ==
    (Evaluated /\ ~ last.from_cache /\ last.reloaded /\ FileBroken(last.file)) =>
        /\ last.exc = NoExc
        /\ last.response.decision =
               DecisionOver(last.repo._policies, last.request).decision

\* position of a loaded policy in the document it was loaded from
FileIndex(policy) ==
    CHOOSE k \in 1..Len(loaded_doc.policies) :
        loaded_doc.policies[k].ruleId = policy.ruleId

\* C10: the loaded list is ordered by (priority ascending, file index
\* ascending), a missing priority counting as 100 and 0 as 0.
C10_OrderedByPriorityThenIndex ==
    \A i, j \in 1..Len(_policies) :
        i < j =>
            \/ _policies[i].priority < _policies[j].priority
            \/ /\ _policies[i].priority = _policies[j].priority
               /\ FileIndex(_policies[i]) < FileIndex(_policies[j])

\* C11: after any Evaluate the decision cache holds at most 1000 entries.
C11_CacheBounded ==
    Evaluated => Cardinality(DOMAIN _decision_cache) <= CACHE_LIMIT

\* the read of this kind has returned without an exception
ReadReturned(op) ==
    reader.pc = "returned" /\ reader.op = op /\ reader.ret.exc = NoExc

\* C12: whatever the interleaving of a reload with a read, the read observes
\* one complete policy set: get_all_policies returns the sorted list of one
\* set, get_policy_by_id what that list holds, and the version, description,
\* count and last_modified of one get_policy_set_metadata belong to one set.
C12_ReadersSeeCompleteSet ==
    /\ ReadReturned("get_all_policies") =>
          \E S \in complete : reader.ret.policies = S._policies
    /\ ReadReturned("get_policy_by_id") =>
          \E S \in complete :
              /\ reader.ret.found = FindPolicy(S._policies, reader.rule_id).found
              /\ reader.ret.policy = FindPolicy(S._policies, reader.rule_id).policy
    /\ ReadReturned("get_policy_set_metadata") =>
          \E S \in complete :
              \A i \in 1..4 :
                  reader.ret[MetadataFields[i]] = MetadataValue(MetadataFields[i], S)

\* the token in hand was issued from a payload without iss and aud and has
\* been presented to validate_token
VerifiedOwn ==
    /\ verified.done
    /\ DOMAIN issued.payload \cap {"iss", "aud", "iat", "exp"} = {}

\* iat and exp of the token in hand
IssuedIat == issued.time
IssuedExp == issued.time + 60 * issued.expires_in_minutes

CarriedClaims == { "sub", "scope", "groups", "dept", "riskScore" }

TokenClaims == JsonLoads(issued.token.members)

\* C15: validate_token rejects every token whose iss or aud is not the
\* configured one, a token of generate_token whose payload carried its own
\* iss or aud included.
C15_ForeignIssuerOrAudienceRejected ==
    (/\ verified.done
     /\ \/ TokenClaims.iss # Settings.jwt_issuer
        \/ TokenClaims.aud # Settings.jwt_audience) =>
        /\ verified.exc \in {"TokenInvalidError", "TokenExpiredError"}
        /\ verified.raised = "AuthServiceError"

\* generate_token has signed a payload with its own iss, and validate_token
\* has rejected the token while it was neither immature nor expired
C15_Witness ==
    /\ verified.done
    /\ "iss" \in DOMAIN issued.payload
    /\ TokenClaims.iss = issued.payload.iss
    /\ TokenClaims.iss # Settings.jwt_issuer
    /\ IssuedIat <= verified.time /\ verified.time < IssuedExp
    /\ verified.exc = "TokenInvalidError"

\* C16: a password grant with correct credentials for a user the store
\* holds as inactive fails with UserInactiveError and issues no token.
C16_InactiveUserRefused ==
    (/\ granted.done
     /\ granted.request.grant_type = "password"
     /\ ValidateUserPassword(granted.request.username, granted.request.password).found
     /\ granted.request.username \in DOMAIN users
     /\ ~ users[granted.request.username].active) =>
        granted.exc = "UserInactiveError"

\* the scope tokens the credential of the request is allowed and the request
\* asks for, read when there is none
FinalScope(request) ==
    LET asked == Range(IF request.scope = << >> THEN << "read" >> ELSE request.scope)
        allowed == Range(GetUserScopes(request.client_id, request.username))
    IN IF asked \cap allowed = {} THEN { "read" } ELSE asked \cap allowed

\* C17: the scope of a TokenResponse and the scope claim of its token are
\* both the final scope of the request.
C17_ResponseScopeIsTokenScope ==
    (granted.done /\ granted.exc = NoExc) =>
        /\ Range(JsonLoads(granted.response.access_token.members).scope)
               = FinalScope(granted.request)
        /\ Range(granted.response.scope) = FinalScope(granted.request)

\* the request went to a path that is not excluded, with an Authorization
\* header that is no "Bearer " header or whose token failed validation
BadCredentials ==
    /\ gate.done
    /\ ~ IsExcludedPath(gate.path)
    /\ gate.has_authorization
    /\ ~ gate.token_ok

\* C18: a request to a non-excluded path whose Authorization header is no
\* "Bearer " header or carries a token that fails validation is answered 401
\* and does not reach the handler.
C18_BadCredentialsAnswered401 ==
    BadCredentials => (gate.status = 401 /\ ~ gate.forwarded)

\* the reload endpoint has answered
ReloadAnswered == last.op = "reload_handler"

\* C19: POST /authz/policies/reload from a caller without "ADMINS" in its
\* groups is answered 403 and leaves the policy list, the set's metadata, the
\* recorded mtime and the decision cache as they were; a reload through the
\* endpoint happens for callers with "ADMINS" only.
C19_ReloadNeedsAdmins ==
    ReloadAnswered =>
        /\ "ADMINS" \notin Range(last.groups) =>
              /\ last.status = 403
              /\ Repo = last.repo
              /\ _decision_cache = last.cache
        /\ last.reloaded => "ADMINS" \in Range(last.groups)

\* a caller of the group HR_READERS has been refused while a newer file that
\* loads was waiting and the cache held a decision
C19_Witness ==
    /\ ReloadAnswered
    /\ last.groups = << "HR_READERS" >>
    /\ last.status = 403
    /\ FileLoads(last.file)
    /\ last.file.mtime > last.repo._last_modified
    /\ DOMAIN last.cache # {}
    /\ Repo = last.repo

----------------------------------------------------------------------------
(* Condition trees with empty branches: the service over files whose one     *)
(* policy has a tree of AND and OR nodes, some of them with no sub-condition. *)

MaxDepth == 2       \* nesting of AND/OR nodes above a leaf
MaxBranch == 1      \* sub-conditions of one AND/OR node

LeafHR == Leaf1("subject.dept", "eq", PyStr("HR"))

\* the trees of at most d levels of AND/OR nodes over LeafHR
RECURSIVE TreesOfDepth(_)
TreesOfDepth(d) ==
    IF d = 0 THEN { LeafHR }
    ELSE LET below == TreesOfDepth(d - 1)
             lists == UNION { [1..n -> below] : n \in 0..MaxBranch }
         IN below \cup { CAnd(l) : l \in lists } \cup { COr(l) : l \in lists }

BranchPolicy(conditions) == RawPolicy("BRANCH-PERMIT", "Permit", 10, conditions)

BranchDocs ==
    { Document("5.0", << BranchPolicy(c) >>) : c \in TreesOfDepth(MaxDepth) }

\* an AND or OR node of the tree, at any depth, has no sub-condition
RECURSIVE HasEmptyBranch(_)
HasEmptyBranch(conditions) ==
    /\ conditions.kind \in {"AND", "OR"}
    /\ \/ conditions.subs = << >>
       \/ \E i \in 1..Len(conditions.subs) : HasEmptyBranch(conditions.subs[i])

NextBranches ==
    \/ \E d \in TickDeltas : Tick(d)
    \/ \E doc \in BranchDocs : WriteFile(doc)
    \/ \E request \in Requests, correlation_id \in ClientIds,
          generated \in GeneratedIds :
           Evaluate(request, correlation_id, generated)
    \/ ReloadPolicies

SpecBranches == Init /\ [][NextBranches]_vars

\* C20: a policy file in which an AND or OR node, at any depth, has an empty
\* list of sub-conditions is refused by a reload (valid = false), and no
\* policy of the loaded list has such a node.
C20_EmptyBranchNeverLoaded ==
    /\ \A i \in 1..Len(_policies) : ~ HasEmptyBranch(_policies[i].conditions)
    /\ ( /\ last.op = "reload"
         /\ last.file.exists
         /\ last.file.content.json_ok
         /\ \E i \in 1..Len(last.file.content.policies) :
               HasEmptyBranch(last.file.content.policies[i].conditions) )
       => ~ last.result.valid

----------------------------------------------------------------------------
(* Policies on the request's action: the service over files whose policy has *)
(* a leaf keyed by the top-level path "action".                               *)

PolicyDeleteDeny ==
    RawPolicy("ACTION-DENY-01", "Deny", 10, Leaf1("action", "eq", PyStr("delete")))

DocAction == Document("6.0", << PolicyHRPermit, PolicyDeleteDeny >>)

\* ABACRequest.action: the request with the action asked for
WithAction(request, action) == [request EXCEPT !.action = PyStr(action)]

ActionDocs == { DocAction, DocDenyOnly }

NextAction ==
    \/ \E d \in TickDeltas : Tick(d)
    \/ \E doc \in ActionDocs : WriteFile(doc)
    \/ \E request \in Requests, correlation_id \in ClientIds,
          generated \in GeneratedIds :
           Evaluate(request, correlation_id, generated)
    \/ ReloadPolicies

SpecAction == Init /\ [][NextAction]_vars

\* C21: a policy file with a leaf keyed by "action" passes validation and is
\* loaded by a reload, and the leaf is evaluated against the request's
\* action: {"action": {"eq": "delete"}} holds of a request whose action is
\* "delete" and not of one with the default "access".
C21_ActionLeafLoads ==
    /\ ( /\ last.op = "reload"
         /\ last.file.exists
         /\ last.file.content = DocAction )
       => /\ last.result.valid
          /\ \E i \in 1..Len(_policies) : _policies[i].ruleId = "ACTION-DENY-01"
    /\ EvaluatePolicyConditions(PolicyDeleteDeny.conditions,
                                FlattenRequest(WithAction(ReqHR, "delete")))
    /\ ~ EvaluatePolicyConditions(PolicyDeleteDeny.conditions,
                                  FlattenRequest(ReqHR))

----------------------------------------------------------------------------
(* Key loading: the process is started in some environment with some        *)
(* algorithm and key variables, constructs its JWTManager, and issues and   *)
(* validates tokens with the keys it holds.                                  *)

\* JWT_ALGORITHM, and JWT_PRIVATE_KEY and JWT_PUBLIC_KEY ("" when unset)
Algorithms == { "HS256", "RS256", "ES256" }
KeyData == { "", "pem" }

\* the key generate_token signs with and the key validate_token verifies with
SigningKey(m) == IF m._algorithm = "HS256" THEN m._secret_key ELSE m._private_key
VerifyKey(m) == IF m._algorithm = "HS256" THEN m._secret_key ELSE m._public_key

InitKeys ==
    /\ InitWith(InitDocs)
    /\ manager = NoManager
    /\ other_cache = EmptyCache
    /\ workers = [w \in Workers |-> WorkerIdle]
    /\ origin = EmptyCache

\* jwt_manager = JWTManager() at import, in a process with this configuration
NewJWTManager(environment, algorithm, private_key_data, public_key_data) ==
    /\ ~ manager.constructed
    /\ manager.exc = NoExc
    /\ manager' = LoadKeys(algorithm, Settings.jwt_secret, private_key_data,
                           public_key_data, environment)
    /\ UNCHANGED << now, other_cache, workers, origin >>
    /\ UNCHANGED authz
    /\ UNCHANGED auth

\* generate_token(payload, expires_in_minutes) of the constructed manager
ManagerIssue(payload, expires_in_minutes) ==
    /\ manager.constructed
    /\ issued' = [held |-> TRUE,
                  token |-> [GenerateToken(payload, expires_in_minutes, now)
                                EXCEPT !.signed_with = SigningKey(manager)],
                  payload |-> payload,
                  expires_in_minutes |-> expires_in_minutes, time |-> now]
    /\ verified' = NotVerified
    /\ UNCHANGED << now, users, granted, gate >>
    /\ UNCHANGED authz
    /\ UNCHANGED more

\* validate_token(token) of the constructed manager
ManagerValidate ==
    /\ manager.constructed
    /\ issued.held
    /\ \E r \in { ClaimsOf(Validated(JwtDecode(issued.token, VerifyKey(manager),
                                               Settings.jwt_issuer,
                                               Settings.jwt_audience, now))) } :
          verified' = [done |-> TRUE, exc |-> r.jwt_exc, payload |-> r.payload,
                       time |-> now, raised |-> r.exc, claims |-> r.claims]
    /\ UNCHANGED << now, issued, users, granted, gate >>
    /\ UNCHANGED authz
    /\ UNCHANGED more

NextKeys ==
    \/ \E t \in GateTimes : ClockReads(t)
    \/ \E environment \in Environments, algorithm \in Algorithms,
          private_key_data \in KeyData, public_key_data \in KeyData :
           NewJWTManager(environment, algorithm, private_key_data, public_key_data)
    \/ ManagerIssue(UserPayload, 1)
    \/ ManagerValidate

SpecKeys == InitKeys /\ [][NextKeys]_vars

\* C22: with RS256 and no configured key pair, the token manager comes up
\* with a generated pair in development only; in testing and production its
\* construction fails, and no token is issued or verified with a generated
\* key.
C22_GeneratedKeysOnlyInDevelopment ==
    /\ manager.generated => manager.environment = "development"
    /\ ( /\ issued.held
         /\ issued.token.signed_with = GeneratedKey )
       => manager.environment = "development"
    /\ ( /\ verified.done
         /\ verified.exc = NoExc
         /\ VerifyKey(manager) = PublicKeyOf(GeneratedKey) )
       => manager.environment = "development"

----------------------------------------------------------------------------
(* Start-up: the process finds some policy file, or none, and builds its      *)
(* first AuthzService when the first request asks for one.                    *)

\* the files a process may be started on
BootDocs == { DocTest, DocBadOperator, NotJson }

\* PolicyRepository._initialized: the first load has succeeded
Initialized(repo) == ~ repo._policy_set.is_none

InitBoot ==
    /\ now = 0
    /\ ticks = 0
    /\ writes = 0
    /\ calls = 0
    /\ file_mtime = 0
    /\ \/ /\ file_exists = TRUE
          /\ file_content \in BootDocs
       \/ /\ file_exists = FALSE
          /\ file_content = NotJson
    /\ loaded_doc = EmptyDoc
    /\ _policies = FreshRepo._policies
    /\ _policy_set = FreshRepo._policy_set
    /\ _last_modified = FreshRepo._last_modified
    /\ complete = { FreshRepo }
    /\ loader = LoaderIdle
    /\ reader = ReaderIdle
    /\ issued = NoToken
    /\ verified = NotVerified
    /\ users = SeededUsers
    /\ granted = NotGranted
    /\ gate = NoRequest
    /\ _decision_cache = EmptyCache
    /\ hist = [r \in Requests |-> NoEval]
    /\ last = NoCall
    /\ InitMore

\* PolicyRepository(): __init__ runs until it has succeeded once; what it
\* raises leaves the constructor
NewPolicyRepository(repo, file) ==
    IF Initialized(repo) THEN [exc |-> NoExc, repo |-> repo]
    ELSE LoadPolicies(FreshRepo, file)

\* get_authz_service(): AuthzService.__init__ asks for the evaluator and the
\* repository, and starts with an empty cache of its own
NewAuthzService ==
    \E built \in { NewPolicyRepository(Repo, File) } :
       /\ Served
       /\ SetRepo(built.repo)
       /\ _decision_cache' = IF built.exc = NoExc THEN EmptyCache
                             ELSE _decision_cache
       /\ loaded_doc' = IF built.exc = NoExc /\ ~ Initialized(Repo)
                        THEN (IF file_exists THEN file_content ELSE EmptyDoc)
                        ELSE loaded_doc
       /\ hist' = [q \in Requests |-> NoEval]
       /\ complete' = complete \cup { built.repo }
       /\ last' = [op |-> "new_service", exc |-> built.exc,
                   raised |-> built.exc # NoExc, file |-> File, prev |-> Repo,
                   repo |-> built.repo]
       /\ UNCHANGED << now, ticks, file_exists, file_mtime, file_content, writes,
                       loader, reader >>
       /\ UNCHANGED auth
       /\ UNCHANGED more

\* a call on a service that exists
OnService(call) ==
    /\ Initialized(Repo)
    /\ call

NextBoot ==
    \/ \E d \in TickDeltas : Tick(d)
    \/ \E doc \in BootDocs : WriteFile(doc)
    \/ NewAuthzService
    \/ \E request \in Requests, correlation_id \in ClientIds,
          generated \in GeneratedIds :
           OnService(Evaluate(request, correlation_id, generated))
    \/ OnService(ReloadPolicies)

SpecBoot == InitBoot /\ [][NextBoot]_vars

\* C24: when the first load finds a file that is not JSON or that the
\* validator rejects, the repository is constructed with an empty policy
\* set and the construction of the service does not raise.
C24_FirstLoadFailureBootsEmpty ==
    ( /\ last.op = "new_service"
      /\ ~ Initialized(last.prev)
      /\ FileBroken(last.file) )
    => /\ ~ last.raised
       /\ Initialized(Repo)
       /\ _policies = << >>

----------------------------------------------------------------------------
(* Two handles: get_authz_service() has returned two AuthzService objects,   *)
(* each with a _decision_cache of its own, over the one PolicyRepository.    *)

\* evaluate_authorization(request, correlation_id) on the second service
EvaluateOther(request, correlation_id) ==
    \E r \in { EvaluateAuthorization(request, correlation_id, other_cache, Repo,
                                     File, now) } :
       /\ Served
       /\ other_cache' = r.cache
       /\ SetRepo(r.repo)
       /\ loaded_doc' = IF r.reloaded /\ r.exc = NoExc THEN file_content
                        ELSE loaded_doc
       /\ last' = Call("evaluate_other", request, correlation_id, r.response,
                       r.from_cache, r.exc, r.raised, r.policies, r.reloaded,
                       NoResult, hist[request],
                       EntryOf(other_cache, GenerateCacheKey(request)))
       /\ UNCHANGED << now, ticks, file_exists, file_mtime, file_content, writes,
                       _decision_cache, hist, manager, workers, origin >>
       /\ UNCHANGED threads
       /\ UNCHANGED auth

\* reload_policies() on the second service
ReloadOther ==
    \E cleared \in { ClearCache(other_cache) } :
    \E r \in { RepoReloadPolicies(Repo, File) } :
       /\ Served
       /\ other_cache' = cleared
       /\ SetRepo(r.repo)
       /\ loaded_doc' = IF ~ r.result.valid THEN loaded_doc
                        ELSE IF file_exists THEN file_content ELSE EmptyDoc
       /\ last' = Call("reload_other", ReqHR, "", NoResponse, FALSE,
                       IF r.result.valid THEN NoExc ELSE r.result.errors[1],
                       FALSE, << >>, TRUE, r.result, NoEval,
                       EntryOf(EmptyCache, << >>))
       /\ UNCHANGED << now, ticks, file_exists, file_mtime, file_content, writes,
                       _decision_cache, hist, manager, workers, origin >>
       /\ UNCHANGED threads
       /\ UNCHANGED auth

NextHandles ==
    \/ \E d \in TickDeltas : Tick(d)
    \/ \E doc \in { DocDenyOnly } : WriteFile(doc)
    \/ \E request \in Requests, correlation_id \in ClientIds,
          generated \in GeneratedIds :
           Evaluate(request, correlation_id, generated)
    \/ ReloadPolicies
    \/ \E request \in Requests, correlation_id \in ClientIds :
           EvaluateOther(request, correlation_id)
    \/ ReloadOther

SpecHandles == Init /\ [][NextHandles]_vars

\* C26: the decision cache is one mapping for every handle: when a reload
\* through either service has returned, the cache of each service is empty,
\* and an Evaluate on either service that follows the reload is not answered
\* from an entry stored before it.
C26_ReloadEmptiesEveryCache ==
    last.op \in { "reload", "reload_other" } =>
        /\ _decision_cache = EmptyCache
        /\ other_cache = EmptyCache

----------------------------------------------------------------------------
(* Leaves on context.timeOfDay: requests that carry a time of day are       *)
(* evaluated against a leaf that compares it with a time of the policy.     *)

\* time strings with one-digit and two-digit hours
TimeStrings ==
    { "0:00", "0:30", "00:00", "00:30", "9:00", "9:30", "09:00", "09:30",
      "10:00", "10:30", "23:00", "23:30" }

\* codes of the characters "0".."9" and ":"
Digits == 48..57
Colon == 58

\* re.match(r'^([01]?[0-9]|2[0-3]):[0-5][0-9]$', v) on the codes of v
ValidTimeFormat(codes) ==
    \E n \in 1..2 :
       /\ Len(codes) = n + 3
       /\ codes[n + 1] = Colon
       /\ codes[n + 2] \in 48..53
       /\ codes[n + 3] \in Digits
       /\ \/ /\ n = 1
             /\ codes[1] \in Digits
          \/ /\ n = 2
             /\ \/ /\ codes[1] \in 48..49
                   /\ codes[2] \in Digits
                \/ /\ codes[1] = 50
                   /\ codes[2] \in 48..51

\* int() of a string of digits
RECURSIVE IntOf(_)
IntOf(codes) ==
    IF codes = << >> THEN 0
    ELSE 10 * IntOf(SubSeq(codes, 1, Len(codes) - 1)) + (codes[Len(codes)] - 48)

\* parse_time of _compare_time on a string with one ":": hour * 60 + minute
ParseTime(time_str) ==
    LET codes == StrCodes(time_str)
        at == CHOOSE i \in 1..Len(codes) : codes[i] = Colon
    IN IntOf(SubSeq(codes, 1, at - 1)) * 60
       + IntOf(SubSeq(codes, at + 1, Len(codes)))

\* Context(timeOfDay=...): the request with this time of day
WithTimeOfDay(request, time_str) ==
    [request EXCEPT !.context.timeOfDay = PyStr(time_str)]

\* the times the request model accepts
RequestTimes == { s \in TimeStrings : ValidTimeFormat(StrCodes(s)) }

CompareOperators == { "gt", "gte", "lt", "lte" }

\* _evaluate_policy_conditions on {"context.timeOfDay": {operator: expected}}
\* for a request whose timeOfDay is actual
CompareTimeOfDay(operator, actual, expected) ==
    /\ last' = [op |-> "time_leaf", operator |-> operator, actual |-> actual,
                expected |-> expected,
                result |-> EvaluatePolicyConditions(
                               Leaf1("context.timeOfDay", operator, PyStr(expected)),
                               FlattenRequest(WithTimeOfDay(ReqHR, actual)))]
    /\ UNCHANGED << now, ticks, file_exists, file_mtime, file_content, writes,
                    calls, _policies, _policy_set, _last_modified,
                    _decision_cache, loaded_doc, hist >>
    /\ UNCHANGED threads
    /\ UNCHANGED auth
    /\ UNCHANGED more

NextTimes ==
    \E operator \in CompareOperators, actual \in RequestTimes,
       expected \in RequestTimes :
        CompareTimeOfDay(operator, actual, expected)

SpecTimes == Init /\ [][NextTimes]_vars

\* C27: a leaf on context.timeOfDay with gt, gte, lt or lte holds exactly
\* when the comparison holds of the minutes since midnight of the request's
\* time and the policy's time, for all times the request model accepts,
\* hours of one digit included.
C27_TimeOfDayComparesMinutes ==
    last.op = "time_leaf" =>
        ( last.result <=> Comparator(last.operator, ParseTime(last.actual),
                                     ParseTime(last.expected)) )

----------------------------------------------------------------------------
(* A writer and one loading thread: the file is replaced while             *)
(* _load_policies runs, and calls are served when no load is in progress.   *)

\* a call made while no load is in progress
Alone(call) ==
    /\ loader.pc = "idle"
    /\ call

NextWriter ==
    \/ \E d \in TickDeltas : Tick(d)
    \/ \E doc \in FileDocs : WriteFile(doc)
    \/ ReloadBegin
    \/ LoadMissingSet
    \/ LoadPolicySet
    \/ LoadAssign
    \/ LoadSort
    \/ LoadMtime
    \/ \E request \in Requests, correlation_id \in ClientIds,
          generated \in GeneratedIds :
           Alone(Evaluate(request, correlation_id, generated))

SpecWriter == Init /\ [][NextWriter]_vars

\* C28: the mtime a load records is the mtime of the file version it parsed:
\* whenever no load is in progress and the recorded mtime is that of the
\* file in place, the policies in memory are those of that file, so a write
\* that falls inside a load is still seen by the next _should_reload.
C28_RecordedMtimeIsOfParsedContent ==
    ( /\ loader.pc = "idle"
      /\ file_exists
      /\ _last_modified = FromTimestamp(file_mtime) )
    => loaded_doc = file_content

----------------------------------------------------------------------------
(* Repair: the policy file is broken by one write and repaired by a later   *)
(* one, while requests are evaluated.                                        *)

BrokenDocs == { NotJson, DocBadOperator }
RepairDocs == { DocTest }

\* a writer puts a file that loads in the place of one that does not
RepairFile(doc) ==
    /\ file_exists
    /\ ~ (file_content.json_ok /\ ValidatePolicySet(file_content).valid)
    /\ now > file_mtime
    /\ file_content' = doc
    /\ file_mtime' = now
    /\ hist' = [r \in Requests |-> NoEval]
    /\ last' = NoCall
    /\ UNCHANGED << now, ticks, file_exists, writes, calls, _policies,
                    _policy_set, _last_modified, _decision_cache, loaded_doc >>
    /\ UNCHANGED threads
    /\ UNCHANGED auth
    /\ UNCHANGED more

NextRepair ==
    \/ \E d \in TickDeltas : Tick(d)
    \/ \E doc \in BrokenDocs : WriteFile(doc)
    \/ \E doc \in RepairDocs : RepairFile(doc)
    \/ \E request \in Requests, correlation_id \in ClientIds,
          generated \in GeneratedIds :
           Evaluate(request, correlation_id, generated)

SpecRepair == Init /\ [][NextRepair]_vars

\* the Deny that stands for a failed evaluation
IsEvaluationError(response) ==
    /\ response.decision = "Deny"
    /\ response.reasons # << >>
    /\ response.reasons[1][1] = "Evaluation error"

\* C29: the Deny of a failed evaluation is not stored in the decision cache,
\* and an Evaluate that finds the repaired file already loaded returns the
\* decision of the policies, not an "Evaluation error" Deny.
C29_ErrorDenyDoesNotOutliveFailure ==
    /\ \A k \in DOMAIN _decision_cache :
          ~ IsEvaluationError(_decision_cache[k].response)
    /\ ( /\ last.op = "evaluate"
         /\ last.file.exists
         /\ last.file.content.json_ok
         /\ ValidatePolicySet(last.file.content).valid
         /\ last.repo._last_modified = FromTimestamp(last.file.mtime) )
       => ~ IsEvaluationError(last.response)

----------------------------------------------------------------------------
(* Threads on one AuthzService.  evaluate_authorization and reload_policies  *)
(* are taken one access to the shared dictionary or repository at a time;    *)
(* the threads interleave between these accesses.                            *)

\* the files a writer deploys while the service runs; each of them loads
WorkerDocs == { DocDenyOnly }

\* the two records _log_decision writes, both flagged audit=True
LogDecision(response, from_cache) ==
    << [event |-> "Authorization decision", decision |-> response.decision,
        from_cache |-> from_cache] >>
    \o (IF response.decision \in { "Deny", "Challenge" }
        THEN << [event |-> "Critical authorization decision",
                 decision |-> response.decision, from_cache |-> from_cache] >>
        ELSE << >>)

\* the policy list behind each entry of the cache, after a store of cache_key
OriginOver(cache, cache_key, policies) ==
    [k \in DOMAIN cache |->
        IF k = cache_key THEN policies
        ELSE IF k \in DOMAIN origin THEN origin[k] ELSE << >>]

\* what a step of a thread leaves alone whatever it does
WorkerFrame ==
    /\ UNCHANGED << now, ticks, file_exists, file_mtime, file_content, writes,
                    hist, manager, other_cache >>
    /\ UNCHANGED threads
    /\ UNCHANGED auth

\* a step that touches neither the repository nor the result of a call
LocalStep ==
    /\ UNCHANGED << calls, _policies, _policy_set, _last_modified, loaded_doc,
                    last >>
    /\ WorkerFrame

\* the record of a call of a thread that has returned
WorkerReturned(w, op, worker, result) ==
    [op |-> op, worker |-> w, request |-> worker.request,
     response |-> worker.response, from_cache |-> worker.from_cache,
     exc |-> worker.exc, audits |-> worker.audits,
     policies |-> worker.policies, result |-> result, time |-> now]

\* evaluate_authorization enters _get_from_cache:
\* `if cache_key not in self._decision_cache: return None`
EvaluateBegin(w, request, correlation_id) ==
    /\ workers[w].pc = "idle"
    /\ Served
    /\ workers' = [workers EXCEPT ![w] =
          [WorkerIdle EXCEPT
              !.op = "evaluate", !.request = request,
              !.correlation_id = correlation_id,
              !.pc = IF GenerateCacheKey(request) \in DOMAIN _decision_cache
                     THEN "read" ELSE "evaluate"]]
    /\ UNCHANGED << _policies, _policy_set, _last_modified, _decision_cache,
                    loaded_doc, last, origin >>
    /\ WorkerFrame

\* `entry = self._decision_cache[cache_key]`: KeyError when the key has gone
CacheRead(w) ==
    /\ workers[w].pc = "read"
    /\ \E cache_key \in { GenerateCacheKey(workers[w].request) } :
          workers' = [workers EXCEPT ![w] =
             IF cache_key \in DOMAIN _decision_cache
             THEN [@ EXCEPT !.pc = "ttl", !.entry = _decision_cache[cache_key]]
             ELSE [@ EXCEPT !.pc = "except", !.exc = "KeyError"]]
    /\ UNCHANGED << _decision_cache, origin >>
    /\ LocalStep

\* `if time.time() - entry["timestamp"] > self._cache_ttl:
\*      del self._decision_cache[cache_key]`, else the entry's response
CacheTtl(w) ==
    /\ workers[w].pc = "ttl"
    /\ \E cache_key \in { GenerateCacheKey(workers[w].request) } :
          IF now - workers[w].entry.timestamp > CACHE_TTL
          THEN IF cache_key \in DOMAIN _decision_cache
               THEN /\ _decision_cache' =
                          [k \in DOMAIN _decision_cache \ {cache_key} |->
                              _decision_cache[k]]
                    /\ origin' = [k \in DOMAIN origin \ {cache_key} |-> origin[k]]
                    /\ workers' = [workers EXCEPT ![w].pc = "evaluate"]
               ELSE /\ workers' = [workers EXCEPT ![w].pc = "except",
                                                  ![w].exc = "KeyError"]
                    /\ UNCHANGED << _decision_cache, origin >>
          ELSE /\ workers' = [workers EXCEPT
                     ![w].pc = "hit",
                     ![w].response = workers[w].entry.response,
                     ![w].from_cache = TRUE]
               /\ UNCHANGED << _decision_cache, origin >>
    /\ LocalStep

\* the hit path: _log_decision(cached_response, ..., from_cache=True) and
\* the return of the cached response
HitReturn(w) ==
    /\ workers[w].pc = "hit"
    /\ \E done \in { [workers[w] EXCEPT
                        !.audits = @ \o LogDecision(workers[w].response, TRUE)] } :
          /\ last' = WorkerReturned(w, "worker_evaluate", done, NoResult)
          /\ workers' = [workers EXCEPT ![w] = WorkerIdle]
    /\ UNCHANGED << calls, _policies, _policy_set, _last_modified,
                    _decision_cache, loaded_doc, origin >>
    /\ WorkerFrame

\* the miss path: self.abac_evaluator.evaluate(request), which reads the
\* repository (a hot reload included), and _enrich_response
EvaluateStep(w) ==
    /\ workers[w].pc = "evaluate"
    /\ \E r \in { EvaluatorEvaluate(workers[w].request, Repo, File) } :
          /\ SetRepo(r.repo)
          /\ loaded_doc' = IF r.reloaded /\ r.exc = NoExc THEN file_content
                           ELSE loaded_doc
          /\ workers' = [workers EXCEPT
                ![w].pc = IF r.raised THEN "except" ELSE "store",
                ![w].exc = r.exc,
                ![w].policies = r.policies,
                ![w].response =
                    EnrichResponse(r.response, workers[w].correlation_id)]
    /\ UNCHANGED << calls, _decision_cache, last, origin >>
    /\ WorkerFrame

\* _store_in_cache(cache_key, response)
StoreStep(w) ==
    /\ workers[w].pc = "store"
    /\ \E cache_key \in { GenerateCacheKey(workers[w].request) } :
       \E stored \in { StoreInCache(_decision_cache, cache_key,
                                    workers[w].response, now) } :
          /\ _decision_cache' = stored
          /\ origin' = OriginOver(stored, cache_key, workers[w].policies)
    /\ workers' = [workers EXCEPT ![w].pc = "log"]
    /\ LocalStep

\* the miss path ends: _log_decision(response, ...) and the return
MissReturn(w) ==
    /\ workers[w].pc = "log"
    /\ \E done \in { [workers[w] EXCEPT
                        !.audits = @ \o LogDecision(workers[w].response, FALSE)] } :
          /\ last' = WorkerReturned(w, "worker_evaluate", done, NoResult)
          /\ workers' = [workers EXCEPT ![w] = WorkerIdle]
    /\ UNCHANGED << calls, _policies, _policy_set, _last_modified,
                    _decision_cache, loaded_doc, origin >>
    /\ WorkerFrame

\* the except branch of evaluate_authorization: logger.error and the
\* service's own Deny; _log_decision is not called
ExceptReturn(w) ==
    /\ workers[w].pc = "except"
    /\ \E done \in { [workers[w] EXCEPT
                        !.response = ServiceErrorResponse(workers[w].exc)] } :
          /\ last' = WorkerReturned(w, "worker_evaluate", done, NoResult)
          /\ workers' = [workers EXCEPT ![w] = WorkerIdle]
    /\ UNCHANGED << calls, _policies, _policy_set, _last_modified,
                    _decision_cache, loaded_doc, origin >>
    /\ WorkerFrame

\* reload_policies: `self._clear_cache()`
ReloadClear(w) ==
    /\ workers[w].pc = "idle"
    /\ Served
    /\ _decision_cache' = ClearCache(_decision_cache)
    /\ origin' = EmptyCache
    /\ workers' = [workers EXCEPT ![w] =
          [WorkerIdle EXCEPT !.op = "reload", !.pc = "reload",
                             !.cleared = TRUE]]
    /\ UNCHANGED << _policies, _policy_set, _last_modified, loaded_doc, last >>
    /\ WorkerFrame

\* reload_policies: `self.policy_repository.reload_policies()` and the return
ReloadSwap(w) ==
    /\ workers[w].pc = "reload"
    /\ \E r \in { RepoReloadPolicies(Repo, File) } :
          /\ SetRepo(r.repo)
          /\ loaded_doc' = IF ~ r.result.valid THEN loaded_doc
                           ELSE IF file_exists THEN file_content ELSE EmptyDoc
          /\ last' = WorkerReturned(w, "worker_reload", workers[w], r.result)
    /\ workers' = [workers EXCEPT ![w] = WorkerIdle]
    /\ UNCHANGED << calls, _decision_cache, origin >>
    /\ WorkerFrame

NextWorkers ==
    \/ \E d \in TickDeltas : Tick(d)
    \/ \E doc \in WorkerDocs : WriteFile(doc)
    \/ \E w \in Workers, request \in Requests : EvaluateBegin(w, request, "c1")
    \/ \E w \in Workers : CacheRead(w)
    \/ \E w \in Workers : CacheTtl(w)
    \/ \E w \in Workers : HitReturn(w)
    \/ \E w \in Workers : EvaluateStep(w)
    \/ \E w \in Workers : StoreStep(w)
    \/ \E w \in Workers : MissReturn(w)
    \/ \E w \in Workers : ExceptReturn(w)
    \/ \E w \in Workers : ReloadClear(w)
    \/ \E w \in Workers : ReloadSwap(w)

SpecWorkers == Init /\ [][NextWorkers]_vars

\* C30: under any interleaving of Evaluate calls with each other and with
\* ReloadPolicies on one service, no Evaluate fails on the cache and none
\* returns an "Evaluation error" Deny.
C30_EvaluateNeverFailsOnCache ==
    last.op = "worker_evaluate" =>
        /\ last.exc = NoExc
        /\ ~ IsEvaluationError(last.response)

\* C25: once ReloadPolicies has returned, the cache holds no entry whose
\* decision was computed from a policy list other than the one the reload
\* swapped in, whatever Evaluate calls ran beside it.
C25_NoPreReloadEntryAfterReload ==
    ( /\ last.op = "worker_reload"
      /\ last.result.valid )
    => \A k \in DOMAIN _decision_cache : origin[k] = _policies

\* the audit records of a call that report its decision (the record with
\* the counts, the elapsed time and the cache flag)
DecisionRecords(audits) ==
    { i \in DOMAIN audits : audits[i].event = "Authorization decision" }

\* C23: every Evaluate that has returned emitted exactly one audit record of
\* its decision, and the decision in the record is the one it returned;
\* this on a hit, on a miss and on the Deny of a call that failed.
C23_OneAuditRecordPerEvaluate ==
    last.op = "worker_evaluate" =>
        /\ Cardinality(DecisionRecords(last.audits)) = 1
        /\ \A i \in DecisionRecords(last.audits) :
              last.audits[i].decision = last.response.decision

====
